---- MODULE Spec2Model ----
(***************************************************************************)
(* Izypower Cloud: the authenticated client (client.py) and the polling    *)
(* cycle of the snapshot aggregator (__init__.py, async_update_data).      *)
(*                                                                         *)
(* Time is counted in milliseconds; the source counts in seconds, so the   *)
(* program's constants are kept in seconds and converted with Ms.          *)
(***************************************************************************)
EXTENDS Integers, Sequences, FiniteSets, TLC

(***************************************************************************)
(* Program constants                                                       *)
(***************************************************************************)
login_max_attempts == 2
fetch_max_attempts_mut == 3 + 1
fetch_max_attempts == 3
backoff_base == 1
JITTER_SPAN_MS == 500
TOKEN_MARGIN == 10
FALLBACK_LIFETIME_mut == 60 * 60
FALLBACK_LIFETIME == 600
LOGIN_TIMEOUT == 15
FETCH_TIMEOUT == 20

Ms(s) == s * 1000

\* The literals of each fetch operation: max_attempts, backoff_base and the
\* timeout of its GET (client.py 103-104 and 115 for async_get_stations, and
\* the like lines of the other six).
max_attempts_mut(op) == IF op = "battery_links" THEN 2 ELSE 3

max_attempts(op) ==
    CASE op = "stations" -> fetch_max_attempts
      [] op = "device_page" -> 3
      [] op = "component" -> 3
      [] op = "station_info" -> 3
      [] op = "report" -> 3
      [] op = "device_wifi" -> 3
      [] op = "battery_links" -> 3

fetch_backoff_base(op) ==
    CASE op = "stations" -> 1
      [] op = "device_page" -> 1
      [] op = "component" -> 1
      [] op = "station_info" -> 1
      [] op = "report" -> 1
      [] op = "device_wifi" -> 1
      [] op = "battery_links" -> 1

fetch_timeout(op) ==
    CASE op = "stations" -> FETCH_TIMEOUT
      [] op = "device_page" -> 20
      [] op = "component" -> 20
      [] op = "station_info" -> 20
      [] op = "report" -> 20
      [] op = "device_wifi" -> 20
      [] op = "battery_links" -> 20

(***************************************************************************)
(* Bounds of the model                                                     *)
(***************************************************************************)
\* Fetch calls of one polling cycle that the remote side may disturb.
MaxTroubled == 1
\* Forms submitted to the configuration flows, one after the other.
MaxSubmissions == 3

(***************************************************************************)
(* Option values: None is <<>>, a present value v is <<v>>.                *)
(***************************************************************************)
None == <<>>
Some(v) == <<v>>
IsSome(o) == Len(o) = 1
Val(o) == o[1]

(***************************************************************************)
(* Tokens.  A token is a dot-separated string; the model keeps the number  *)
(* of segments, what the second segment decodes to, and the signature.     *)
(*   pay = "undecodable": not base64 / not JSON / not an object            *)
(*   pay = "noexp":       an object without "exp"                          *)
(*   pay = "exp":         "exp" is a number, exp its value (ms)            *)
(*   pay = "expword":     "exp" is a non-numeric string                    *)
(***************************************************************************)
Tok(n, p, e, s) == [segs |-> n, pay |-> p, exp |-> e, sig |-> s]

NowStart == Ms(100)

\* Expiry claims: zero, in the past, inside the 10 s margin, just outside
\* it, far away.
ExpPast == Ms(50)
ExpSoon == NowStart + Ms(11)
ExpFar == NowStart + Ms(3600)
ExpClaims == {0, ExpPast, NowStart + Ms(10), ExpSoon, ExpFar}

\* Tokens an inline login of a fetch is answered with.
FetchTokens ==
    {Tok(3, "exp", ExpFar, 1), Tok(3, "exp", ExpFar, 2), Tok(3, "exp", ExpSoon, 1),
     Tok(3, "exp", ExpPast, 1), Tok(3, "noexp", 0, 1)}

\* Tokens a login called on its own is answered with.
Tokens ==
    FetchTokens
    \cup {Tok(3, "exp", e, 1) : e \in ExpClaims}
    \cup {Tok(3, "undecodable", 0, 1), Tok(3, "expword", 0, 1)}
    \cup {Tok(1, "undecodable", 0, 1), Tok(2, "exp", ExpFar, 1), Tok(4, "exp", ExpFar, 1),
          Tok(2, "noexp", 0, 1)}

\* client.py 35-51
decode_jwt_exp(tok) ==
    IF tok.segs < 2 THEN None
    ELSE IF tok.pay = "exp" /\ tok.exp # 0 THEN Some(tok.exp)
    ELSE None

token_is_valid_mut(token, expiry, t) ==
    IF ~IsSome(token) \/ ~IsSome(expiry) THEN FALSE
    ELSE t <= Val(expiry) - Ms(TOKEN_MARGIN)

\* client.py 96-99: expiry 0.0 is falsy, like None.
token_is_valid(token, expiry, t) ==
    IF ~IsSome(token) \/ ~IsSome(expiry) \/ (IsSome(expiry) /\ Val(expiry) = 0) THEN FALSE
    ELSE t < Val(expiry) - Ms(TOKEN_MARGIN)

\* client.py 76-81
expiry_after_login(tok, t) ==
    LET exp == decode_jwt_exp(tok)
    IN IF IsSome(exp) /\ Val(exp) # 0 THEN Val(exp) ELSE t + Ms(FALLBACK_LIFETIME)

backoff_wait_mut(base, attempt, j) == Ms(base) * (2 ^ attempt) + j

\* client.py 90-91 and 144-145: jitter j in [0, 500) ms.
backoff_wait(base, attempt, j) == Ms(base) * (2 ^ (attempt - 1)) + j

(***************************************************************************)
(* Responses of the remote side                                            *)
(***************************************************************************)
NoTok == Tok(0, "undecodable", 0, 0)

\* What one login POST can end in (client.py 61-87): a timeout, a connection
\* error, a body that is not JSON, JSON without data.token (or with an empty
\* one), JSON with a token.
\* The remote side answers a call that is not troubled as it should; of a
\* troubled call it answers every exchange in any way: in any of the ways
\* below under the "rich" environment, in the few ways that decide what the
\* caller of the fetch sees under the "lean" one.
TokenOut(t) == [kind |-> "token", tok |-> t]
LoginFault(k) == [kind |-> k, tok |-> NoTok]
GoodToken == Tok(3, "exp", ExpFar, 1)
OtherToken == Tok(3, "exp", ExpFar, 2)

LoginOutcomes(op, troubled, env) ==
    IF ~troubled THEN {TokenOut(GoodToken)}
    ELSE IF env = "lean" THEN {LoginFault("notoken"), TokenOut(OtherToken)}
    ELSE IF env = "flows"
    THEN {LoginFault("timeout"), LoginFault("notoken"), TokenOut(GoodToken)}
    ELSE IF env = "calm" THEN {TokenOut(GoodToken)}
    ELSE IF env = "live"
    THEN {LoginFault("timeout"), LoginFault("notoken"),
          TokenOut(GoodToken), TokenOut(Tok(3, "exp", ExpPast, 1))}
    ELSE {LoginFault(k) : k \in {"timeout", "error", "nonjson", "notoken"}}
         \cup {TokenOut(t) : t \in IF op = "login" THEN Tokens ELSE FetchTokens}

FetchOps == {"stations", "station_info", "report", "component", "device_page",
             "device_wifi", "battery_links"}

(***************************************************************************)
(* JSON bodies.  Text is a sequence of characters, so that lower() and     *)
(* "in" are computed; an absent, null or empty text is <<>>.               *)
(***************************************************************************)
Upper == <<"A","B","C","D","E","F","G","H","I","J","K","L","M",
           "N","O","P","Q","R","S","T","U","V","W","X","Y","Z">>
Lower == <<"a","b","c","d","e","f","g","h","i","j","k","l","m",
           "n","o","p","q","r","s","t","u","v","w","x","y","z">>

\* str.lower() (__init__.py 112)
lower_char(ch) ==
    IF \E i \in 1..26 : Upper[i] = ch
    THEN Lower[CHOOSE i \in 1..26 : Upper[i] = ch]
    ELSE ch
lower(txt) == [i \in 1..Len(txt) |-> lower_char(txt[i])]

\* needle in hay (__init__.py 118)
contains(hay, needle) ==
    \E i \in 1..(Len(hay) - Len(needle) + 1) :
        SubSeq(hay, i, i + Len(needle) - 1) = needle

BATTERY == <<"b","a","t","t","e","r","y">>
BatteryPack == <<"B","a","t","t","e","r","y"," ","P","a","c","k">>
Inverter == <<"I","n","v","e","r","t","e","r">>
Batterie == <<"B","a","t","t","e","r","i","e">>
Code1 == <<"1">>
Code2 == <<"2">>
Code3 == <<"3">>

\* {} : what the cycle puts in the place of a sub-resource it could not get.
EmptyObj == [shape |-> "empty"]
\* A body the cycle stores without looking into it.
PlainBody == [shape |-> "plain"]

\* A station or device list body.  shape says how far body["data"]["records"]
\* can be followed:
\*   "notdict"     the body is no object          (.get raises)
\*   "nodata"      no "data" key                  (records = [])
\*   "baddata"     "data" is no object, e.g. null (.get raises)
\*   "badrecords"  "records" cannot be iterated   (for raises)
\*   "list"        "records" is the list recs
ListBody(shape, recs) == [shape |-> shape, recs |-> recs]

\* A station record; stationsId "" for a missing, null, empty or zero
\* identifier.  The entries of a records list are objects, and the stations of
\* one list (as the devices of one page) have different identifiers.
Station(id) == [stationsId |-> id]

NominalStations == ListBody("list", <<Station("s1"), Station("s2")>>)

StationsBodies ==
    {NominalStations,
     ListBody("list", <<>>),
     ListBody("list", <<Station("s2")>>),
     ListBody("list", <<Station(""), Station("s1")>>),
     ListBody("nodata", <<>>),
     ListBody("baddata", <<>>),
     ListBody("badrecords", <<>>),
     ListBody("notdict", <<>>)}

\* A station-info body: deviceTypes is "missing", "bad" (cannot be iterated)
\* or the "list" enum of {value, name} entries.
InfoBody(shape, types, enum) == [shape |-> shape, types |-> types, enum |-> enum]
TypeEntry(value, name) == [value |-> value, name |-> name]

NominalInfo ==
    InfoBody("obj", "list", <<TypeEntry(Code1, BatteryPack), TypeEntry(Code2, Inverter)>>)

InfoBodies ==
    {NominalInfo,
     InfoBody("obj", "list", <<TypeEntry(Code1, Batterie), TypeEntry(Code2, <<>>)>>),
     InfoBody("obj", "missing", <<>>),
     InfoBody("obj", "bad", <<>>),
     InfoBody("notdict", "missing", <<>>)}

\* A device record of a device page.
Device(sn, serialNumber, deviceId, deviceType) ==
    [sn |-> sn, serialNumber |-> serialNumber,
     deviceId |-> deviceId, deviceType |-> deviceType]

NominalDevices ==
    ListBody("list", <<Device("SN1", "", "d1", BATTERY), Device("SN2", "", "d2", Code2)>>)

DevicesBodies ==
    {NominalDevices,
     ListBody("list", <<>>),
     ListBody("list", <<Device("", "SN1", "d1", Code1), Device("", "", "d2", BATTERY)>>),
     ListBody("list", <<Device("SN1", "", "", BATTERY), Device("SN2", "", "d2", Code3)>>),
     ListBody("list", <<Device("SN2", "", "d2", Code2), Device("SN1", "", "d1", Code1)>>),
     ListBody("badrecords", <<>>),
     ListBody("nodata", <<>>),
     ListBody("baddata", <<>>),
     ListBody("notdict", <<>>)}

NominalBody(op) ==
    CASE op = "stations" -> NominalStations
      [] op = "station_info" -> NominalInfo
      [] op = "device_page" -> NominalDevices
      [] OTHER -> PlainBody

Bodies(op) ==
    CASE op = "stations" -> StationsBodies
      [] op = "station_info" -> InfoBodies
      [] op = "device_page" -> DevicesBodies
      [] OTHER -> {PlainBody, EmptyObj}

\* What one GET can end in (client.py 115-141).
GetFaults == {"timeout", "error", "s401", "s5xx", "sOther", "badjson"}
GetFault(k) == [kind |-> k, body |-> EmptyObj]
GetOk(b) == [kind |-> "ok", body |-> b]

\* Under the "lean" environment a troubled call that is not answered at its
\* first attempt is not answered at a later one.
GetOutcomes(op, attempt, troubled, env) ==
    IF ~troubled THEN {GetOk(NominalBody(op))}
    ELSE IF env = "lean"
    THEN {GetOk(b) : b \in IF attempt = 1 THEN Bodies(op) ELSE {}}
         \cup {GetFault("s5xx"), GetFault("s401")}
    ELSE IF env = "calm" THEN {GetOk(NominalBody(op)), GetFault("s5xx")}
    ELSE IF env = "live"
    THEN {GetOk(NominalBody(op)), GetFault("timeout"), GetFault("s5xx"), GetFault("s401")}
    ELSE {GetOk(b) : b \in Bodies(op)} \cup {GetFault(k) : k \in GetFaults}

Jitters(env) == IF env = "rich" THEN {0, JITTER_SPAN_MS - 1} ELSE {0}

(***************************************************************************)
(* State                                                                   *)
(***************************************************************************)
VARIABLES
    c,       \* the IzyClient instance and the call in progress on it
    now,     \* time.time(), ms
    calls,   \* calls made on the client so far (specification Spec)
    y,       \* the polling cycle: where async_update_data stands, and its locals
    log,     \* the fetches the cycle has called, in order, and how each ended
    budget,  \* fetch calls the remote side may still trouble
    env,     \* "rich", "lean", "flows", "live" or "calm": how the remote side
             \* troubles a call
    h,       \* the host: config entries and the configuration flow in progress
    p        \* the setup of the sensor platform (sensor.py, async_setup_entry)

vars == <<c, now, calls, y, log, budget, env, h, p>>
drv == <<calls, y, log, budget, env, h, p>>

\* How a call ended: st is "ok", "raised" or "cancelled", at the suspension
\* point a cancelled call was cancelled at.
NoResult == [st |-> "none", body |-> EmptyObj, at |-> "none"]

\* IzyClient.__init__ (client.py 17-22), no call in progress.
NewClient ==
    [token |-> None, expiry |-> None,
     pc |-> "idle", op |-> "none", attempt |-> 0, lattempt |-> 0, lret |-> "none",
     wait |-> 0, result |-> NoResult,
     gets |-> 0, posts |-> 0, logins |-> 0, sleeps |-> 0,
     validAtCall |-> FALSE, loginsAtFirstGet |-> 0, firstGetAttempt |-> 0,
     stored |-> FALSE, inflight |-> 0, answer |-> "none",
     lanswer |-> "none", ltimeouts |-> 0,
     before |-> [token |-> None, expiry |-> None],
     troubled |-> FALSE]

\* The call-local part of the record, cleared when a call starts.
ClearCall(cl) ==
    [NewClient EXCEPT !.token = cl.token, !.expiry = cl.expiry, !.inflight = cl.inflight]

(***************************************************************************)
(* async_login and the fetch skeleton, as steps between suspension points  *)
(***************************************************************************)
\* The mark of a token stored by the step just taken, and that of the answer
\* the GET or POST just got, is dropped by the next.
Step(cl) == [cl EXCEPT !.stored = FALSE, !.answer = "none", !.lanswer = "none"]


Completed_mut(cl) == cl

\* The async with of client.py 61 or 115 is left: the HTTP exchange has
\* completed, failed or timed out, or is abandoned; inflight counts the
\* exchanges that have not.
Completed(cl) == [cl EXCEPT !.inflight = cl.inflight - 1]

\* client.py 61-75, 84-85: the POST is answered by (or ends in) kind;
\* ltimeouts counts the POSTs of the login that ended in asyncio.TimeoutError.
PostAnswered(cl, kind) ==
    [Completed(cl) EXCEPT !.lanswer = kind,
                          !.ltimeouts = IF kind = "timeout" THEN @ + 1 ELSE @]

\* client.py 115-117: the GET is answered by (or ends in) kind.
Answered(cl, kind) == [Step(Completed(cl)) EXCEPT !.answer = kind]

\* client.py 61: the POST goes out.
IssuePost(cl) ==
    [cl EXCEPT !.pc = "l_post", !.posts = cl.posts + 1, !.inflight = cl.inflight + 1]

\* client.py 53-58: a login call starts; ret is where it returns to, before
\* what the client holds when it starts.
StartLogin(cl, ret) ==
    IssuePost([cl EXCEPT !.lattempt = 1, !.lret = ret, !.posts = 0, !.ltimeouts = 0,
                         !.logins = cl.logins + 1,
                         !.before = [token |-> cl.token, expiry |-> cl.expiry]])

\* client.py 112-115: the GET goes out with the stored token.
IssueGet(cl) ==
    [cl EXCEPT !.pc = "f_get", !.gets = cl.gets + 1, !.inflight = cl.inflight + 1,
               !.loginsAtFirstGet = IF cl.gets = 0 THEN cl.logins
                                    ELSE cl.loginsAtFirstGet,
               !.firstGetAttempt = IF cl.gets = 0 THEN cl.attempt
                                   ELSE cl.firstGetAttempt]

BeginAttempt_mut(cl, t) == IssueGet(cl)

\* client.py 107-115: the head of one attempt.
BeginAttempt(cl, t) ==
    IF token_is_valid(cl.token, cl.expiry, t) THEN IssueGet(cl)
    ELSE StartLogin(cl, "pre")

Finish(cl, st, body) ==
    [cl EXCEPT !.pc = "done", !.result = [st |-> st, body |-> body, at |-> "none"],
               !.wait = 0]

\* asyncio.CancelledError is raised at the await the call is suspended at; it
\* is no Exception (and no asyncio.TimeoutError), so that neither of the
\* except clauses of client.py 84-87 and 138-141 catches it and it leaves the
\* call.
CancelCall(cl) ==
    [(IF cl.pc \in {"l_post", "f_get"} THEN Completed(cl) ELSE cl)
        EXCEPT !.pc = "done",
               !.result = [st |-> "cancelled", body |-> EmptyObj, at |-> cl.pc],
               !.wait = 0]

\* client.py 138-148: an attempt has failed; sleep if one is left, else raise.
FailAttempt(cl, j) ==
    IF cl.attempt < max_attempts(cl.op)
    THEN [cl EXCEPT !.pc = "f_sleep",
                    !.wait = backoff_wait(fetch_backoff_base(cl.op), cl.attempt, j),
                    !.sleeps = cl.sleeps + 1]
    ELSE Finish(cl, "raised", EmptyObj)

LoginReturns_mut(cl, ok, j) ==
    CASE cl.lret = "pre" -> IF ok THEN IssueGet(cl) ELSE FailAttempt(cl, j)
      [] cl.lret = "401" -> IF ok THEN IssueGet(cl) ELSE FailAttempt(cl, j)
      [] OTHER -> Finish(cl, IF ok THEN "ok" ELSE "raised", EmptyObj)

\* async_login has returned (ok) or raised (~ok) to its caller.
LoginReturns(cl, ok, j) ==
    CASE cl.lret = "pre" -> IF ok THEN IssueGet(cl) ELSE FailAttempt(cl, j)
      [] cl.lret = "401" -> FailAttempt(cl, j)
      [] OTHER -> Finish(cl, IF ok THEN "ok" ELSE "raised", EmptyObj)

\* client.py 76-83: a token came back.
StoreToken(cl, tok, t) ==
    [cl EXCEPT !.token = Some(tok), !.expiry = Some(expiry_after_login(tok, t)),
               !.stored = TRUE]

LoginAttemptFailed_mut(cl, j) ==
    IF cl.lattempt < login_max_attempts
    THEN [cl EXCEPT !.pc = "l_sleep", !.wait = backoff_wait(backoff_base, cl.lattempt, j)]
    ELSE LoginReturns([cl EXCEPT !.token = None, !.expiry = None], FALSE, j)

\* client.py 84-94: a login attempt failed.
LoginAttemptFailed(cl, j) ==
    IF cl.lattempt < login_max_attempts
    THEN [cl EXCEPT !.pc = "l_sleep", !.wait = backoff_wait(backoff_base, cl.lattempt, j)]
    ELSE LoginReturns(cl, FALSE, j)

\* Time an HTTP exchange takes: none when it is answered or fails at once, the
\* whole timeout when it times out (client.py 61, 115).  To keep the clock of
\* the model small, a timed-out POST of a login made inside a fetch is taken
\* to last no time.
Elapsed(kind, timeout, op) ==
    IF kind # "timeout" THEN 0
    ELSE IF timeout = LOGIN_TIMEOUT /\ op # "login" THEN 0
    ELSE Ms(timeout)

after_post_mut(cl, o, j, t) ==
    IF o.kind = "token"
    THEN LoginReturns(StoreToken(PostAnswered(cl, o.kind), o.tok, t), TRUE, j)
    ELSE IF o.kind = "notoken"
    THEN LoginReturns(PostAnswered(Step(cl), o.kind), TRUE, j)
    ELSE LoginAttemptFailed(PostAnswered(Step(cl), o.kind), j)

\* client.py 61-94: what async_login does with the outcome o of its POST, at
\* time t.
after_post(cl, o, j, t) ==
    IF o.kind = "token"
    THEN LoginReturns(StoreToken(PostAnswered(cl, o.kind), o.tok, t), TRUE, j)
    ELSE LoginAttemptFailed(PostAnswered(Step(cl), o.kind), j)

after_get_mut(cl, o, j) ==
    CASE o.kind = "ok" -> Finish(Answered(cl, o.kind), "ok", o.body)
      [] o.kind = "s401" -> StartLogin(Answered(cl, o.kind), "401")
      [] o.kind = "sOther" -> Finish(Answered(cl, o.kind), "raised", EmptyObj)
      [] OTHER -> FailAttempt(Answered(cl, o.kind), j)

\* client.py 115-141: what a fetch does with the outcome o of its GET.
after_get(cl, o, j) ==
    CASE o.kind = "ok" -> Finish(Answered(cl, o.kind), "ok", o.body)
      [] o.kind = "s401" -> StartLogin(Answered(cl, o.kind), "401")
      [] OTHER -> FailAttempt(Answered(cl, o.kind), j)

after_sleep_mut(cl, t) == [Step(cl) EXCEPT !.wait = 0]

\* client.py 143-146, 106-115: the sleep is over at time t.
after_sleep(cl, t) ==
    BeginAttempt([Step(cl) EXCEPT !.attempt = cl.attempt + 1, !.wait = 0], t)

\* The POST of async_login completes (client.py 61-94).
PostResponse ==
    /\ c.pc = "l_post"
    /\ \E o \in LoginOutcomes(c.op, c.troubled, env), j \in Jitters(env) :
         LET t == now + Elapsed(o.kind, LOGIN_TIMEOUT, c.op)
         IN /\ now' = t
            /\ c' = after_post(c, o, j, t)
    /\ UNCHANGED drv

\* The backoff sleep of async_login ends (client.py 89-92, 58-61).
LoginSleepDone ==
    /\ c.pc = "l_sleep"
    /\ now' = now + c.wait
    /\ c' = IssuePost([Step(c) EXCEPT !.lattempt = c.lattempt + 1, !.wait = 0])
    /\ UNCHANGED drv

\* The GET of a fetch completes (client.py 115-141).
GetResponse ==
    /\ c.pc = "f_get"
    /\ \E o \in GetOutcomes(c.op, c.attempt, c.troubled, env), j \in Jitters(env) :
         /\ now' = now + Elapsed(o.kind, fetch_timeout(c.op), c.op)
         /\ c' = after_get(c, o, j)
    /\ UNCHANGED drv

\* The backoff sleep of a fetch ends and the next attempt begins
\* (client.py 143-146, 106-115).
FetchSleepDone ==
    /\ c.pc = "f_sleep"
    /\ now' = now + c.wait
    /\ c' = after_sleep(c, now + c.wait)
    /\ UNCHANGED drv

\* A fetch operation is called (client.py 101-115).
StartFetch(cl, op, t, troubled) ==
    BeginAttempt([ClearCall(cl) EXCEPT !.op = op, !.attempt = 1, !.troubled = troubled,
                    !.validAtCall = token_is_valid(cl.token, cl.expiry, t)], t)

(***************************************************************************)
(* The polling cycle, async_update_data (__init__.py 27-141)               *)
(***************************************************************************)
EmptyMap == [k \in {} |-> EmptyObj]
Put(f, k, v) == (k :> v) @@ f

Windows_mut == <<"day", "all", "month", "year">>

\* __init__.py 49
Windows == <<"all", "day", "month", "year">>

\* datetime.now() (__init__.py 37): the local date; years have four digits.
Date(year, month, day) == [year |-> year, month |-> month, day |-> day]
NoDate == Date(0, 0, 0)
Dates == {Date(2024, 3, 5), Date(2025, 11, 30)}

\* strftime: %Y, %m and %d as decimal digits, %m and %d padded to two.
Digits == <<"0","1","2","3","4","5","6","7","8","9">>
digit(n) == Digits[n + 1]
fmt_Y(d) ==
    <<digit(d.year \div 1000), digit((d.year \div 100) % 10),
      digit((d.year \div 10) % 10), digit(d.year % 10)>>
fmt_m(d) == <<digit(d.month \div 10), digit(d.month % 10)>>
fmt_d(d) == <<digit(d.day \div 10), digit(d.day % 10)>>
strftime_Ymd(d) == fmt_Y(d) \o <<"-">> \o fmt_m(d) \o <<"-">> \o fmt_d(d)
strftime_Ym(d) == fmt_Y(d) \o <<"-">> \o fmt_m(d)
strftime_Y(d) == fmt_Y(d)

search_time_mut(d, time_type) ==
    IF time_type \in {"all", "day", "month"} THEN strftime_Ymd(d)
    ELSE strftime_Y(d)

\* __init__.py 52-57
search_time(d, time_type) ==
    IF time_type \in {"all", "day"} THEN strftime_Ymd(d)
    ELSE IF time_type = "month" THEN strftime_Ym(d)
    ELSE strftime_Y(d)

\* The locals of async_update_data; pc names the fetch it is waiting for.
NoCycle ==
    [pc |-> "off", si |-> 0, wi |-> 0, di |-> 0, today |-> NoDate,
     stations |-> EmptyObj, station_info |-> EmptyObj,
     stations_info |-> EmptyMap, stations_reports |-> EmptyMap,
     stations_component |-> EmptyMap, stations_devices |-> EmptyMap]

\* body.get("data", {}).get("records", []) and the start of the loop over it
\* (__init__.py 38-39, 92-96): the records, or an exception.
Raises(body) == body.shape \in {"notdict", "baddata", "badrecords"}
Records(body) == IF body.shape = "list" THEN body.recs ELSE <<>>

\* __init__.py 83-89: None when station_info or its enumeration cannot be
\* walked, else the code -> name map (a later entry replaces an earlier one).
TypeCodes(enum) ==
    {enum[i].value : i \in {n \in 1..Len(enum) : enum[n].value # <<>> /\ enum[n].name # <<>>}}
LastOf(enum, code) ==
    CHOOSE i \in 1..Len(enum) :
        /\ enum[i].value = code /\ enum[i].name # <<>>
        /\ \A n \in (i + 1)..Len(enum) : ~(enum[n].value = code /\ enum[n].name # <<>>)
device_type_mapping(info) ==
    IF info.shape = "notdict" \/ info.types = "bad" THEN None
    ELSE Some([code \in TypeCodes(info.enum) |-> info.enum[LastOf(info.enum, code)].name])

is_battery_mut(mapping, device_type_code) ==
    LET device_type_name ==
            IF device_type_code \in DOMAIN mapping THEN mapping[device_type_code] ELSE <<>>
    IN contains(device_type_name, BATTERY) \/ device_type_code = BATTERY

\* __init__.py 111-118
is_battery(mapping, device_type_code) ==
    LET device_type_name ==
            lower(IF device_type_code \in DOMAIN mapping THEN mapping[device_type_code]
                  ELSE <<>>)
    IN contains(device_type_name, BATTERY) \/ device_type_code = BATTERY

\* __init__.py 97
device_sn(rec) == IF rec.sn # "" THEN rec.sn ELSE rec.serialNumber

CurStation(cy) == Records(cy.stations)[cy.si].stationsId
CurDevices(cy) == Records(cy.stations_devices[CurStation(cy)].page)
CurDevice(cy) == CurDevices(cy)[cy.di]

\* __init__.py 135-141 / an exception leaves async_update_data.
Returned(cy) == [cy EXCEPT !.pc = "returned"]
Raised(cy) == [cy EXCEPT !.pc = "raised"]
\* asyncio.CancelledError leaves async_update_data.
Cancelled(cy) == [cy EXCEPT !.pc = "cancelled"]

\* __init__.py 39-43: the loop over the station records goes on at record i.
RECURSIVE NextStation(_, _)
NextStation(cy, i) ==
    LET recs == Records(cy.stations)
    IN IF i > Len(recs) THEN Returned(cy)
       ELSE IF recs[i].stationsId = "" THEN NextStation(cy, i + 1)
       ELSE [cy EXCEPT !.pc = "station_info", !.si = i, !.wi = 0, !.di = 0,
                       !.station_info = EmptyObj]

\* __init__.py 129-131: an exception inside the device block.
DeviceBlockFailed(cy) ==
    NextStation([cy EXCEPT !.stations_devices = Put(@, CurStation(cy), EmptyObj)],
                cy.si + 1)

\* __init__.py 96-103: the loop over the device records goes on at record i.
RECURSIVE NextDevice(_, _)
NextDevice(cy, i) ==
    LET recs == CurDevices(cy)
    IN IF i > Len(recs) THEN NextStation(cy, cy.si + 1)
       ELSE IF device_sn(recs[i]) = "" THEN NextDevice(cy, i + 1)
       ELSE [cy EXCEPT !.pc = "device_wifi", !.di = i]

after_stations_mut(cy, res, d) ==
    IF res.st = "raised" THEN Returned(cy)
    ELSE IF Raises(res.body) THEN Raised([cy EXCEPT !.stations = res.body, !.today = d])
    ELSE NextStation([cy EXCEPT !.stations = res.body, !.today = d], 1)

\* __init__.py 30-39; d is what datetime.now() reads.
after_stations(cy, res, d) ==
    IF res.st = "raised" THEN Raised(cy)
    ELSE IF Raises(res.body) THEN Raised([cy EXCEPT !.stations = res.body, !.today = d])
    ELSE NextStation([cy EXCEPT !.stations = res.body, !.today = d], 1)

after_station_info_mut(cy, res) ==
    [cy EXCEPT !.station_info = res.body,
               !.stations_info = Put(@, CurStation(cy), res.body),
               !.stations_reports = Put(@, CurStation(cy), EmptyMap),
               !.pc = "report", !.wi = 1]

\* __init__.py 43-48, 132-133
after_station_info(cy, res) ==
    IF res.st = "raised" THEN NextStation(cy, cy.si + 1)
    ELSE [cy EXCEPT !.station_info = res.body,
                    !.stations_info = Put(@, CurStation(cy), res.body),
                    !.stations_reports = Put(@, CurStation(cy), EmptyMap),
                    !.pc = "report", !.wi = 1]

Got(res) == IF res.st = "ok" THEN res.body ELSE EmptyObj

after_report_mut(cy, res) ==
    LET sid == CurStation(cy)
        cy2 == [cy EXCEPT !.stations_reports =
                    Put(@, sid, Put(cy.stations_reports[sid], Windows[cy.wi], Got(res)))]
    IN IF cy.wi < Len(Windows) /\ res.st = "ok" THEN [cy2 EXCEPT !.wi = cy.wi + 1]
       ELSE [cy2 EXCEPT !.pc = "component", !.wi = 0]

\* __init__.py 49-64
after_report(cy, res) ==
    LET sid == CurStation(cy)
        cy2 == [cy EXCEPT !.stations_reports =
                    Put(@, sid, Put(cy.stations_reports[sid], Windows[cy.wi], Got(res)))]
    IN IF cy.wi < Len(Windows) THEN [cy2 EXCEPT !.wi = cy.wi + 1]
       ELSE [cy2 EXCEPT !.pc = "component", !.wi = 0]

after_component_mut(cy, res) ==
    IF res.st = "raised" THEN NextStation(cy, cy.si + 1)
    ELSE [cy EXCEPT !.stations_component = Put(@, CurStation(cy), res.body),
                    !.pc = "device_page"]

\* __init__.py 67-78
after_component(cy, res) ==
    [cy EXCEPT !.stations_component = Put(@, CurStation(cy), Got(res)),
               !.pc = "device_page"]

after_device_page_mut(cy, res) ==
    IF res.st = "raised" THEN NextStation(cy, cy.si + 1)
    ELSE IF device_type_mapping(cy.station_info) = None \/ Raises(res.body)
    THEN DeviceBlockFailed(cy)
    ELSE NextDevice([cy EXCEPT !.stations_devices =
                        Put(@, CurStation(cy),
                            [shape |-> "page", page |-> res.body,
                             wifi_data |-> EmptyMap, battery_links |-> EmptyMap])], 1)

\* __init__.py 78-96, 129-131
after_device_page(cy, res) ==
    IF res.st = "raised" THEN DeviceBlockFailed(cy)
    ELSE IF device_type_mapping(cy.station_info) = None \/ Raises(res.body)
    THEN DeviceBlockFailed(cy)
    ELSE NextDevice([cy EXCEPT !.stations_devices =
                        Put(@, CurStation(cy),
                            [shape |-> "page", page |-> res.body,
                             wifi_data |-> EmptyMap, battery_links |-> EmptyMap])], 1)

after_device_wifi_mut(cy, res) ==
    LET sid == CurStation(cy)
        dev == CurDevice(cy)
        entry == cy.stations_devices[sid]
        cy2 == [cy EXCEPT !.stations_devices =
                    Put(@, sid, [entry EXCEPT !.wifi_data = Put(@, device_sn(dev), Got(res))])]
    IN IF res.st = "ok"
          /\ is_battery(Val(device_type_mapping(cy.station_info)), dev.deviceType)
       THEN [cy2 EXCEPT !.pc = "battery_links"]
       ELSE NextDevice(cy2, cy.di + 1)

\* __init__.py 103-121
after_device_wifi(cy, res) ==
    LET sid == CurStation(cy)
        dev == CurDevice(cy)
        entry == cy.stations_devices[sid]
        cy2 == [cy EXCEPT !.stations_devices =
                    Put(@, sid, [entry EXCEPT !.wifi_data = Put(@, device_sn(dev), Got(res))])]
    IN IF is_battery(Val(device_type_mapping(cy.station_info)), dev.deviceType)
       THEN [cy2 EXCEPT !.pc = "battery_links"]
       ELSE NextDevice(cy2, cy.di + 1)

after_battery_links_mut(cy, res) ==
    LET sid == CurStation(cy)
        dev == CurDevice(cy)
        entry == cy.stations_devices[sid]
        cy2 == IF dev.deviceId = "" \/ res.st = "raised" THEN cy
               ELSE [cy EXCEPT !.stations_devices =
                        Put(@, sid, [entry EXCEPT !.battery_links =
                                        Put(@, dev.deviceId, res.body)])]
    IN NextDevice(cy2, cy.di + 1)

\* __init__.py 121-128
after_battery_links(cy, res) ==
    LET sid == CurStation(cy)
        dev == CurDevice(cy)
        entry == cy.stations_devices[sid]
        cy2 == IF dev.deviceId = "" THEN cy
               ELSE [cy EXCEPT !.stations_devices =
                        Put(@, sid, [entry EXCEPT !.battery_links =
                                        Put(@, dev.deviceId, Got(res))])]
    IN NextDevice(cy2, cy.di + 1)

\* What async_update_data does with a fetch that returned or raised an
\* Exception, up to the next fetch or its end.
Handle(cy, res, d) ==
    CASE cy.pc = "stations" -> after_stations(cy, res, d)
      [] cy.pc = "station_info" -> after_station_info(cy, res)
      [] cy.pc = "report" -> after_report(cy, res)
      [] cy.pc = "component" -> after_component(cy, res)
      [] cy.pc = "device_page" -> after_device_page(cy, res)
      [] cy.pc = "device_wifi" -> after_device_wifi(cy, res)
      [] cy.pc = "battery_links" -> after_battery_links(cy, res)

Advance_mut(cy, res, d) ==
    Handle(cy, [res EXCEPT !.st = IF @ = "cancelled" THEN "raised" ELSE @], d)

\* What async_update_data does with the result of the fetch it waited for:
\* none of its except Exception clauses (__init__.py 62, 72, 106, 125, 129,
\* 132) catches a CancelledError.
Advance(cy, res, d) ==
    IF res.st = "cancelled" THEN Cancelled(cy) ELSE Handle(cy, res, d)

Ended(cy) == cy.pc \in {"returned", "raised", "cancelled"}

\* The fetch the cycle calls when it stands at cy.pc: the operation, the
\* station and the window or serial number it is called with.
Request(cy) ==
    [op |-> cy.pc,
     sid |-> IF cy.pc = "stations" THEN "" ELSE CurStation(cy),
     arg |-> CASE cy.pc = "report" -> Windows[cy.wi]
               [] cy.pc \in {"device_wifi", "battery_links"} -> device_sn(CurDevice(cy))
               [] OTHER -> "",
     did |-> IF cy.pc = "battery_links" THEN CurDevice(cy).deviceId ELSE "",
     date |-> CASE cy.pc = "report" -> search_time(cy.today, Windows[cy.wi])
                [] cy.pc = "component" -> strftime_Ymd(cy.today)
                [] OTHER -> <<>>,
     res |-> NoResult]

Close(lg, res) == [lg EXCEPT ![Len(lg)].res = res]

\* The cycle calls its next fetch; the remote side may trouble it.
CallNext(cy, lg) ==
    /\ y' = cy
    /\ log' = Append(lg, Request(cy))
    /\ \E troubled \in {FALSE} \cup {t \in {TRUE} : budget > 0} :
         /\ c' = StartFetch(c, cy.pc, now, troubled)
         /\ budget' = IF troubled THEN budget - 1 ELSE budget
    /\ UNCHANGED <<now, calls, env, h, p>>

\* __init__.py 27-30: the refresh trigger starts a cycle.
StartCycle ==
    /\ y.pc = "ready"
    /\ c.pc = "idle"
    /\ CallNext([y EXCEPT !.pc = "stations"], log)

\* A fetch has returned or raised and the cycle goes on to its next fetch.
CycleStep ==
    /\ y.pc \in FetchOps
    /\ c.pc = "done"
    /\ \E d \in Dates :
         /\ ~Ended(Advance(y, c.result, d))
         /\ CallNext(Advance(y, c.result, d), Close(log, c.result))

\* A fetch has returned or raised and the cycle ends: it returns the snapshot
\* (__init__.py 135-141) or an exception leaves it.
CycleEnd ==
    /\ y.pc \in FetchOps
    /\ c.pc = "done"
    /\ \E d \in Dates :
         /\ Ended(Advance(y, c.result, d))
         /\ y' = Advance(y, c.result, d)
    /\ log' = Close(log, c.result)
    /\ c' = ClearCall(c)
    /\ UNCHANGED <<now, calls, budget, env, h, p>>

\* The host cancels the task of the cycle while it is suspended in an HTTP
\* exchange or in a backoff sleep of the fetch it awaits.  A cancellation
\* counts as trouble: it hits the troubled call, or a call that could still
\* have been troubled.
Cancel ==
    /\ y.pc \in FetchOps
    /\ c.pc \in {"l_post", "l_sleep", "f_get", "f_sleep"}
    /\ c.troubled \/ budget > 0
    /\ c' = CancelCall(Step(c))
    /\ budget' = IF c.troubled THEN budget ELSE budget - 1
    /\ UNCHANGED <<now, calls, y, log, env, h, p>>

(***************************************************************************)
(* The setup of the sensor platform (sensor.py 546-785), which the entry's *)
(* setup runs once the first refresh has returned (__init__.py 152-160)    *)
(***************************************************************************)
\* pc names the fetch the setup is waiting for; fetches counts the fetch
\* operations it has called on the entry's client.
NoPlatform == [pc |-> "off", si |-> 0, fetches |-> 0]

\* sensor.py 563-587: the loop over the station records of the snapshot goes
\* on at record i; the station info of the snapshot is walked outside any try.
RECURSIVE PlatformStation(_, _, _)
PlatformStation(pp, cy, i) ==
    LET recs == Records(cy.stations)
        sid == recs[i].stationsId
    IN IF i > Len(recs) THEN [pp EXCEPT !.pc = "added"]
       ELSE IF sid = "" THEN PlatformStation(pp, cy, i + 1)
       ELSE IF sid \in DOMAIN cy.stations_info
               /\ device_type_mapping(cy.stations_info[sid]) = None
       THEN [pp EXCEPT !.pc = "raised"]
       ELSE [pp EXCEPT !.pc = "device_page", !.si = i]

\* sensor.py 656-666, 782-783
platform_after_device_page(pp, cy, res) ==
    IF res.st = "raised" \/ Raises(res.body) THEN PlatformStation(pp, cy, pp.si + 1)
    ELSE [pp EXCEPT !.pc = "component"]

\* sensor.py 750-780
platform_after_component(pp, cy, res) == PlatformStation(pp, cy, pp.si + 1)

PlatformAdvance(pp, cy, res) ==
    IF pp.pc = "device_page" THEN platform_after_device_page(pp, cy, res)
    ELSE platform_after_component(pp, cy, res)

PlatformEnded(pp) == pp.pc \in {"added", "raised"}

\* await client.async_get_device_page / async_get_component (sensor.py 657,
\* 752) on the client of the entry.
PlatformCall(pp) ==
    /\ p' = [pp EXCEPT !.fetches = pp.fetches + 1]
    /\ \E troubled \in {FALSE} \cup {t \in {TRUE} : budget > 0} :
         /\ c' = StartFetch(c, pp.pc, now, troubled)
         /\ budget' = IF troubled THEN budget - 1 ELSE budget
    /\ UNCHANGED <<now, calls, y, log, env, h>>

\* sensor.py 546-587, and 785 when no station has an identifier.
PlatformSetup ==
    /\ y.pc = "returned"
    /\ p.pc = "off"
    /\ c.pc = "idle"
    /\ LET pp == PlatformStation(p, y, 1)
       IN IF PlatformEnded(pp)
          THEN p' = pp /\ UNCHANGED <<c, now, calls, y, log, budget, env, h>>
          ELSE PlatformCall(pp)

\* A fetch of the setup has returned or raised and it goes on to the next.
PlatformStep ==
    /\ p.pc \in {"device_page", "component"}
    /\ c.pc = "done"
    /\ ~PlatformEnded(PlatformAdvance(p, y, c.result))
    /\ PlatformCall(PlatformAdvance(p, y, c.result))

\* A fetch of the setup has returned or raised and the setup ends
\* (sensor.py 785: async_add_entities, or an exception leaves it).
PlatformEnd ==
    /\ p.pc \in {"device_page", "component"}
    /\ c.pc = "done"
    /\ PlatformEnded(PlatformAdvance(p, y, c.result))
    /\ p' = PlatformAdvance(p, y, c.result)
    /\ c' = ClearCall(c)
    /\ UNCHANGED <<now, calls, y, log, budget, env, h>>

(***************************************************************************)
(* The host's config entries and the configuration flows (config_flow.py,  *)
(* options_flow.py)                                                        *)
(***************************************************************************)
Usernames == {"u1", "u2"}
Passwords == {"p1", "p2"}
\* const.py 4, minutes: the period the forms propose (config_flow.py 56).
DEFAULT_SCAN_INTERVAL == 3
\* Refresh periods a form is submitted with.
Periods == {2, DEFAULT_SCAN_INTERVAL}

UserInput(u, pw, r) == [username |-> u, password |-> pw, refresh_period |-> r]
NoInput == UserInput("", "", 0)

\* A config entry: its data, and its options once an options flow has saved
\* them.
Entry(input) ==
    [username |-> input.username, password |-> input.password,
     refresh_period |-> input.refresh_period, options |-> None]

\* What a step of a flow ended in: the form again, with errors, or
\* "create_entry" / "abort"; logins counts the async_login calls it made.
Outcome(flow, result, errors, logins, loginFailed) ==
    [kind |-> flow.kind, input |-> flow.input, target |-> flow.target,
     result |-> result, errors |-> errors, logins |-> logins,
     loginFailed |-> loginFailed]

NoFlow == [pc |-> "idle", kind |-> "none", input |-> NoInput, target |-> 0, errors |-> {}]
NoOutcome == Outcome(NoFlow, "none", {}, 0, FALSE)

\* before and reloadsBefore are the entries and reloads as the step that
\* ended last found them.
NoHost ==
    [entries |-> <<>>, reloads |-> 0, flow |-> NoFlow, last |-> NoOutcome,
     before |-> <<>>, reloadsBefore |-> 0, submissions |-> 0]

\* __init__.py 19-21, 148: the polling interval of an entry, minutes.
update_interval(entry) ==
    IF IsSome(entry.options) THEN Val(entry.options).refresh_period
    ELSE entry.refresh_period

\* A step begins: the submission is counted and the state it found is kept.
Begin(hh, kind, input, target) ==
    [hh EXCEPT !.flow = [pc |-> "validating", kind |-> kind, input |-> input,
                         target |-> target, errors |-> {}],
               !.before = hh.entries, !.reloadsBefore = hh.reloads,
               !.submissions = hh.submissions + 1]

\* The form is shown again with the errors (config_flow.py 52-60, 95-96;
\* options_flow.py 58-72).
ShowForm(hh, errors, logins, loginFailed) ==
    [hh EXCEPT !.flow = NoFlow,
               !.last = Outcome(hh.flow, "form", errors, logins, loginFailed)]

\* What the except clauses make of a raised async_login
\* (config_flow.py 33-38, 77-82; options_flow.py 36-41).
login_errors(ok) == IF ok THEN {} ELSE {"invalid_auth"}

\* config_flow.py 40-50, after the login returned (ok) or raised.
user_done(hh, ok) ==
    IF login_errors(ok) # {} THEN ShowForm(hh, login_errors(ok), 1, ~ok)
    ELSE [hh EXCEPT !.entries = Append(hh.entries, Entry(hh.flow.input)),
                    !.flow = NoFlow,
                    !.last = Outcome(hh.flow, "create_entry", {}, 1, FALSE)]

\* config_flow.py 84-93: the first of the current entries is updated.
reauth_done(hh, ok) ==
    IF login_errors(ok) # {} THEN ShowForm(hh, login_errors(ok), 1, ~ok)
    ELSE [hh EXCEPT !.entries =
                        IF Len(hh.entries) = 0 THEN hh.entries
                        ELSE [hh.entries EXCEPT ![1].username = hh.flow.input.username,
                                                ![1].password = hh.flow.input.password],
                    !.flow = NoFlow,
                    !.last = Outcome(hh.flow, "abort", {}, 1, FALSE)]

options_done_mut(hh, logins, ok) ==
    LET e == hh.flow.target
        input == hh.flow.input
    IN [hh EXCEPT !.entries[e].username = input.username,
                  !.entries[e].password = input.password,
                  !.entries[e].options = Some(input),
                  !.reloads = hh.reloads + 1,
                  !.flow = NoFlow,
                  !.last = Outcome(hh.flow, "create_entry", {}, logins, ~ok)]

\* options_flow.py 43-56
options_done(hh, logins, ok) ==
    LET e == hh.flow.target
        input == hh.flow.input
        errors == hh.flow.errors \cup login_errors(ok)
    IN IF errors # {} THEN ShowForm(hh, errors, logins, ~ok)
       ELSE [hh EXCEPT !.entries[e].username = input.username,
                       !.entries[e].password = input.password,
                       !.entries[e].options = Some(input),
                       !.reloads = hh.reloads + 1,
                       !.flow = NoFlow,
                       !.last = Outcome(hh.flow, "create_entry", {}, logins, FALSE)]

\* IzyClient(self.hass, username, password) and await client.async_login().
ValidationLogin == StartLogin([NewClient EXCEPT !.op = "login", !.troubled = TRUE], "direct")

CanSubmit == h.flow.pc = "idle" /\ c.pc = "idle" /\ h.submissions < MaxSubmissions

\* async_step_user with user_input (config_flow.py 17-39).
SubmitUser ==
    /\ CanSubmit
    /\ \E u \in Usernames, pw \in Passwords, r \in Periods :
         LET hh == Begin(h, "user", UserInput(u, pw, r), 0)
         IN IF \E i \in 1..Len(h.entries) : h.entries[i].username = u
            THEN /\ h' = ShowForm(hh, {"duplicate_username"}, 0, FALSE)
                 /\ c' = c
            ELSE /\ h' = hh
                 /\ c' = ValidationLogin
    /\ UNCHANGED <<now, calls, y, log, budget, env, p>>

\* _show_reauth_form with user_input, for the entry target
\* (config_flow.py 62-82).
SubmitReauth ==
    /\ CanSubmit
    /\ \E target \in 1..Len(h.entries), u \in Usernames, pw \in Passwords :
         h' = Begin(h, "reauth", UserInput(u, pw, 0), target)
    /\ c' = ValidationLogin
    /\ UNCHANGED <<now, calls, y, log, budget, env, p>>

\* OptionsFlowHandler.async_step_init with user_input, for the entry target
\* (options_flow.py 15-41).
SubmitOptions ==
    /\ CanSubmit
    /\ \E target \in 1..Len(h.entries), u \in Usernames, pw \in Passwords, r \in Periods :
         LET hh == [Begin(h, "options", UserInput(u, pw, r), target)
                       EXCEPT !.flow.errors = IF r < 3 THEN {"refresh_period_too_low"}
                                              ELSE {}]
             old == h.entries[target]
         IN IF u # old.username \/ pw # old.password
            THEN /\ h' = hh
                 /\ c' = ValidationLogin
            ELSE /\ h' = options_done(hh, 0, TRUE)
                 /\ c' = c
    /\ UNCHANGED <<now, calls, y, log, budget, env, p>>

\* async_login has returned or raised and the step of the flow goes on to
\* its end; the client is dropped.
FlowDone ==
    /\ h.flow.pc = "validating"
    /\ c.pc = "done"
    /\ h' = CASE h.flow.kind = "user" -> user_done(h, c.result.st = "ok")
               [] h.flow.kind = "reauth" -> reauth_done(h, c.result.st = "ok")
               [] h.flow.kind = "options" -> options_done(h, 1, c.result.st = "ok")
    /\ c' = NewClient
    /\ UNCHANGED <<now, calls, y, log, budget, env, p>>

(***************************************************************************)
(* Specification Spec: one call of one operation on a client that is new   *)
(* or holds what an earlier login stored.                                  *)
(***************************************************************************)
\* When the earlier login happened.
PastLogins == {NowStart - Ms(FALLBACK_LIFETIME), NowStart - Ms(FALLBACK_LIFETIME) + Ms(11),
               NowStart}

InitClients ==
    {NewClient}
    \cup {ClearCall(StoreToken(NewClient, tok, t)) : tok \in FetchTokens, t \in PastLogins}

CallFetch ==
    /\ c.pc = "idle"
    /\ calls = 0
    /\ \E op \in FetchOps : c' = StartFetch(c, op, now, TRUE)
    /\ calls' = 1
    /\ UNCHANGED <<now, y, log, budget, env, h, p>>

CallLogin ==
    /\ c.pc = "idle"
    /\ calls = 0
    /\ c' = StartLogin([ClearCall(c) EXCEPT !.op = "login", !.troubled = TRUE], "direct")
    /\ calls' = 1
    /\ UNCHANGED <<now, y, log, budget, env, h, p>>

Return ==
    /\ c.pc = "done"
    /\ y.pc = "off"
    /\ c' = ClearCall(c)
    /\ UNCHANGED <<now, drv>>

Init ==
    /\ c \in InitClients
    /\ now = NowStart
    /\ calls = 0
    /\ y = NoCycle
    /\ log = <<>>
    /\ budget = 0
    /\ env = "rich"
    /\ h = NoHost
    /\ p = NoPlatform

Next ==
    \/ CallFetch
    \/ CallLogin
    \/ PostResponse
    \/ LoginSleepDone
    \/ GetResponse
    \/ FetchSleepDone
    \/ Return

Spec == Init /\ [][Next]_vars

(***************************************************************************)
(* Specification SpecLive: one call as in Spec, or one polling cycle that   *)
(* nobody cancels, where every HTTP exchange under way is answered or      *)
(* times out (the timeout= of client.py 61 and 115) and every backoff      *)
(* sleep ends (asyncio.sleep, client.py 92 and 146).  The "live"           *)
(* environment answers the one call in the ways that decide how long a     *)
(* call goes on: a timeout, a refusal, a 401, a token that has expired;    *)
(* the "calm" one answers a troubled fetch of the cycle as it should or    *)
(* with a 5xx.                                                             *)
(***************************************************************************)
InitLive ==
    /\ \/ c \in InitClients /\ y = NoCycle /\ budget = 0 /\ env = "live"
       \/ /\ c = NewClient /\ y = [NoCycle EXCEPT !.pc = "ready"]
          /\ budget = MaxTroubled /\ env = "calm"
    /\ now = NowStart
    /\ calls = 0
    /\ log = <<>>
    /\ h = NoHost
    /\ p = NoPlatform

NextLive ==
    \/ y.pc = "off" /\ CallFetch
    \/ y.pc = "off" /\ CallLogin
    \/ Return
    \/ StartCycle
    \/ CycleStep
    \/ CycleEnd
    \/ PostResponse
    \/ LoginSleepDone
    \/ GetResponse
    \/ FetchSleepDone

SpecLive ==
    /\ InitLive /\ [][NextLive]_vars
    /\ WF_vars(PostResponse) /\ WF_vars(LoginSleepDone)
    /\ WF_vars(GetResponse) /\ WF_vars(FetchSleepDone)

(***************************************************************************)
(* Specification SpecCycle: one polling cycle on the client of a config    *)
(* entry, from the first refresh on.                                       *)
(***************************************************************************)
InitCycle ==
    /\ c = NewClient
    /\ now = NowStart
    /\ calls = 0
    /\ y = [NoCycle EXCEPT !.pc = "ready"]
    /\ log = <<>>
    /\ budget = MaxTroubled
    /\ env = "lean"
    /\ h = NoHost
    /\ p = NoPlatform

NextCycle ==
    \/ StartCycle
    \/ CycleStep
    \/ CycleEnd
    \/ Cancel
    \/ PostResponse
    \/ LoginSleepDone
    \/ GetResponse
    \/ FetchSleepDone

SpecCycle == InitCycle /\ [][NextCycle]_vars

(***************************************************************************)
(* Specification SpecSetup: the setup of a config entry, the first refresh *)
(* and then the setup of the sensor platform.                              *)
(***************************************************************************)
NextSetup ==
    \/ NextCycle
    \/ PlatformSetup
    \/ PlatformStep
    \/ PlatformEnd

SpecSetup == InitCycle /\ [][NextSetup]_vars

(***************************************************************************)
(* Specification SpecFlows: forms submitted to the setup, the              *)
(* re-authentication and the options flow, one after the other.            *)
(***************************************************************************)
InitFlows ==
    /\ c = NewClient
    /\ now = NowStart
    /\ calls = 0
    /\ y = NoCycle
    /\ log = <<>>
    /\ budget = 0
    /\ env = "flows"
    /\ h = NoHost
    /\ p = NoPlatform

NextFlows ==
    \/ SubmitUser
    \/ SubmitReauth
    \/ SubmitOptions
    \/ FlowDone
    \/ PostResponse
    \/ LoginSleepDone

SpecFlows == InitFlows /\ [][NextFlows]_vars

(***************************************************************************)
(* Properties                                                              *)
(***************************************************************************)
Entries == 1..Len(log)
Failed(e) == e.res.st = "raised"
Fetched(e) == e.res.st = "ok"
Asked(op, sid, arg) == \E i \in Entries : log[i].op = op /\ log[i].sid = sid /\ log[i].arg = arg
DeviceEntry(sid) ==
    IF sid \in DOMAIN y.stations_devices THEN y.stations_devices[sid] ELSE [shape |-> "absent"]

\* C1: one fetch call issues at most 3 GETs and one login call at most 2
\* POSTs, whatever the remote side answers.
C1_RetryBound == c.gets <= 3 /\ c.posts <= 2

C1_Witness ==
    c.op \in FetchOps /\ c.pc = "done" /\ c.result.st = "raised" /\ c.gets = 3 /\ c.posts = 2

\* C2 as stated: in the snapshot a cycle returns, every sub-resource whose
\* fetch failed has an empty placeholder in its place.
PlaceholderAt(e) ==
    CASE e.op = "station_info" ->
            e.sid \in DOMAIN y.stations_info /\ y.stations_info[e.sid] = EmptyObj
      [] e.op = "report" ->
            /\ e.sid \in DOMAIN y.stations_reports
            /\ e.arg \in DOMAIN y.stations_reports[e.sid]
            /\ y.stations_reports[e.sid][e.arg] = EmptyObj
      [] e.op = "component" ->
            e.sid \in DOMAIN y.stations_component /\ y.stations_component[e.sid] = EmptyObj
      [] e.op = "device_page" -> DeviceEntry(e.sid) = EmptyObj
      [] e.op = "device_wifi" ->
            /\ DeviceEntry(e.sid).shape = "page"
            /\ e.arg \in DOMAIN DeviceEntry(e.sid).wifi_data
            /\ DeviceEntry(e.sid).wifi_data[e.arg] = EmptyObj
      [] e.op = "battery_links" ->
            /\ DeviceEntry(e.sid).shape = "page"
            /\ e.did \in DOMAIN DeviceEntry(e.sid).battery_links
            /\ DeviceEntry(e.sid).battery_links[e.did] = EmptyObj
      [] OTHER -> TRUE

C2_Claim ==
    y.pc = "returned" => \A i \in Entries : Failed(log[i]) => PlaceholderAt(log[i])

\* C2 amended: no failing sub-resource fetch decides whether the cycle returns
\* (only the station list does); in the returned snapshot every sub-resource
\* that was fetched holds its body and every one whose fetch failed holds {},
\* except that a station whose info fetch failed is in none of the four maps,
\* a battery without identifier has no links entry, and a station's device
\* entry is {} also when the info or page body cannot be walked; and every
\* sibling is fetched whatever failed.
Unwalkable(sid, page) ==
    \/ Raises(page)
    \/ sid \notin DOMAIN y.stations_info
    \/ device_type_mapping(y.stations_info[sid]) = None

Settled(e) ==
    CASE e.op = "station_info" ->
            IF Failed(e)
            THEN /\ e.sid \notin DOMAIN y.stations_info
                 /\ e.sid \notin DOMAIN y.stations_reports
                 /\ e.sid \notin DOMAIN y.stations_component
                 /\ e.sid \notin DOMAIN y.stations_devices
            ELSE e.sid \in DOMAIN y.stations_info /\ y.stations_info[e.sid] = e.res.body
      [] e.op = "report" ->
            /\ e.sid \in DOMAIN y.stations_reports
            /\ e.arg \in DOMAIN y.stations_reports[e.sid]
            /\ y.stations_reports[e.sid][e.arg] = Got(e.res)
      [] e.op = "component" ->
            e.sid \in DOMAIN y.stations_component /\ y.stations_component[e.sid] = Got(e.res)
      [] e.op = "device_page" ->
            IF Failed(e) \/ Unwalkable(e.sid, e.res.body)
            THEN DeviceEntry(e.sid) = EmptyObj
            ELSE DeviceEntry(e.sid).shape = "page" /\ DeviceEntry(e.sid).page = e.res.body
      [] e.op = "device_wifi" ->
            /\ DeviceEntry(e.sid).shape = "page"
            /\ e.arg \in DOMAIN DeviceEntry(e.sid).wifi_data
            /\ DeviceEntry(e.sid).wifi_data[e.arg] = Got(e.res)
      [] e.op = "battery_links" ->
            /\ DeviceEntry(e.sid).shape = "page"
            /\ IF e.did = "" THEN TRUE
               ELSE /\ e.did \in DOMAIN DeviceEntry(e.sid).battery_links
                    /\ DeviceEntry(e.sid).battery_links[e.did] = Got(e.res)
      [] OTHER -> TRUE

SiblingsFetched(e) ==
    CASE e.op = "station_info" /\ Fetched(e) ->
            /\ \A w \in 1..Len(Windows) : Asked("report", e.sid, Windows[w])
            /\ Asked("component", e.sid, "")
            /\ Asked("device_page", e.sid, "")
      [] e.op = "device_page" /\ Fetched(e) /\ ~Unwalkable(e.sid, e.res.body) ->
            \A d \in 1..Len(Records(e.res.body)) :
                LET dev == Records(e.res.body)[d]
                IN device_sn(dev) # "" =>
                     /\ Asked("device_wifi", e.sid, device_sn(dev))
                     /\ is_battery(Val(device_type_mapping(y.stations_info[e.sid])),
                                   dev.deviceType)
                          => Asked("battery_links", e.sid, device_sn(dev))
      [] OTHER -> TRUE

C2_Isolation ==
    /\ Ended(y) => (y.pc = "raised" <=> (Failed(log[1]) \/ Raises(y.stations)))
    /\ y.pc = "returned" =>
         /\ \A k \in 1..Len(Records(y.stations)) :
                Records(y.stations)[k].stationsId # ""
                    => Asked("station_info", Records(y.stations)[k].stationsId, "")
         /\ \A i \in Entries : Settled(log[i]) /\ SiblingsFetched(log[i])

C2_Witness ==
    /\ y.pc = "returned"
    /\ \E i \in Entries : log[i].op = "report" /\ log[i].sid = "s1" /\ Failed(log[i])
    /\ Asked("device_wifi", "s1", "SN2")
    /\ Asked("device_wifi", "s2", "SN2")

\* C3: when the station-list fetch fails, which it does only after its third
\* attempt, the cycle raises: it returns no snapshot and calls no other fetch.
C3_StationsFatal ==
    /\ (y.pc = "stations" /\ c.pc = "done" /\ c.result.st = "raised")
         => c.attempt = 3 /\ Len(log) = 1
    /\ (Len(log) >= 1 /\ Failed(log[1]))
         => /\ y.pc = "raised"
            /\ Len(log) = 1
            /\ DOMAIN y.stations_info = {}

C3_Witness == y.pc = "raised" /\ Len(log) = 1 /\ Failed(log[1])

\* C4 as stated: once the station-list fetch has returned a JSON body, the
\* cycle does not raise.
C4_Claim == (Len(log) >= 1 /\ Fetched(log[1])) => y.pc # "raised"

\* C5: _token_is_valid is true exactly when a token and an expiry are stored
\* and now < expiry - 10 s.
C5_ValidIff ==
    token_is_valid(c.token, c.expiry, now)
        <=> (IsSome(c.token) /\ IsSome(c.expiry) /\ now < Val(c.expiry) - 10000)

C5_Witness ==
    /\ IsSome(c.token) /\ IsSome(c.expiry)
    /\ now = Val(c.expiry) - 10000
    /\ ~token_is_valid(c.token, c.expiry, now)

\* C6 as stated: a fetch called with an invalid token logs in exactly once
\* during the call; a fetch called with a valid one does not log in before its
\* GET.
C6_Claim ==
    (c.op \in FetchOps /\ c.pc = "done")
        => IF c.validAtCall THEN c.loginsAtFirstGet = 0 ELSE c.logins = 1

\* C6 amended: a fetch called with an invalid token logs in as the first step
\* of its first attempt, before any GET, and once more at the head of every
\* further attempt until a login succeeds, so that its first GET follows as
\* many logins as attempts were begun (exactly one when the first login
\* succeeds); a fetch called with a valid token issues its first GET with no
\* login before it.  A call holds at most 6 logins.
C6_LoginBeforeGet ==
    c.op \in FetchOps =>
        /\ c.validAtCall => c.gets >= 1 /\ c.loginsAtFirstGet = 0
        /\ ~c.validAtCall =>
              /\ c.logins >= 1
              /\ c.gets >= 1 => c.loginsAtFirstGet = c.firstGetAttempt
        /\ c.logins <= 6

C6_Witness == c.op \in FetchOps /\ ~c.validAtCall /\ c.gets >= 1 /\ c.loginsAtFirstGet = 2

\* C7 as stated: after a login that returned a 3-segment token with a
\* decodable expiry claim, the stored expiry equals that claim.
C7_Claim ==
    (c.stored /\ Val(c.token).segs = 3 /\ Val(c.token).pay = "exp")
        => Val(c.expiry) = Val(c.token).exp

\* C8: after a login that returned a token whose expiry claim is malformed,
\* undecodable or missing, the stored expiry is the login time + 600 s.
NoUsableClaim(tok) == tok.segs < 2 \/ tok.pay \in {"expword", "undecodable", "noexp"}

C8_Fallback ==
    (c.stored /\ NoUsableClaim(Val(c.token))) => Val(c.expiry) = now + 600 * 1000

C8_Witness == c.stored /\ Val(c.token).segs = 3 /\ Val(c.token).pay = "expword"

\* C9: a station whose station-info fetch failed is absent from stations_info
\* and nothing else is fetched for it, and every other station of the list is
\* still processed.
C9_InfoFailure ==
    \A i \in Entries :
        (log[i].op = "station_info" /\ Failed(log[i])) =>
            /\ log[i].sid \notin DOMAIN y.stations_info
            /\ \A j \in Entries : log[j].sid = log[i].sid => j = i
            /\ y.pc # "raised"
            /\ y.pc = "returned" =>
                 \A k \in 1..Len(Records(y.stations)) :
                     Records(y.stations)[k].stationsId # ""
                         => Asked("station_info", Records(y.stations)[k].stationsId, "")

C9_Witness ==
    /\ y.pc = "returned"
    /\ \E i \in Entries : log[i].op = "station_info" /\ log[i].sid = "s1" /\ Failed(log[i])
    /\ "s2" \in DOMAIN y.stations_info
    /\ Asked("device_wifi", "s2", "SN1")

\* C10: for a battery with a serial number (and an identifier) whose wifi
\* fetch succeeded and whose battery-links fetch failed, the returned snapshot
\* holds serial -> the wifi data and device id -> {}.
WifiOkLinksFailed(i, j) ==
    /\ log[i].op = "device_wifi" /\ Fetched(log[i])
    /\ log[j].op = "battery_links" /\ Failed(log[j])
    /\ log[j].sid = log[i].sid /\ log[j].arg = log[i].arg
    /\ log[j].did # ""

ResolvedNames(info, code) ==
    {info.enum[n].name : n \in {k \in 1..Len(info.enum) : info.enum[k].value = code}}
SaysBattery(name) ==
    \E k \in 1..(Len(name) - 6) :
        /\ name[k] \in {"b", "B"} /\ name[k + 1] \in {"a", "A"} /\ name[k + 2] \in {"t", "T"}
        /\ name[k + 3] \in {"t", "T"} /\ name[k + 4] \in {"e", "E"}
        /\ name[k + 5] \in {"r", "R"} /\ name[k + 6] \in {"y", "Y"}
ClassifiedBattery(info, dev) ==
    \/ \E name \in ResolvedNames(info, dev.deviceType) : SaysBattery(name)
    \/ dev.deviceType = <<"b","a","t","t","e","r","y">>
DevicesSeen(sid) ==
    IF DeviceEntry(sid).shape = "page" THEN Records(DeviceEntry(sid).page) ELSE <<>>

C11_BatteryClassification ==
    /\ \A i \in Entries :
          log[i].op = "battery_links" =>
              \E d \in 1..Len(DevicesSeen(log[i].sid)) :
                  LET dev == DevicesSeen(log[i].sid)[d]
                  IN /\ device_sn(dev) = log[i].arg
                     /\ ClassifiedBattery(y.stations_info[log[i].sid], dev)
                     /\ ~(Inverter \in ResolvedNames(y.stations_info[log[i].sid], dev.deviceType)
                          /\ dev.deviceType # BATTERY)
    /\ y.pc = "returned" =>
          \A sid \in DOMAIN y.stations_devices :
              \A d \in 1..Len(DevicesSeen(sid)) :
                  LET dev == DevicesSeen(sid)[d]
                  IN device_sn(dev) # "" =>
                        (Asked("battery_links", sid, device_sn(dev))
                            <=> ClassifiedBattery(y.stations_info[sid], dev))

C11_Witness ==
    /\ y.pc = "returned"
    /\ \E sid \in DOMAIN y.stations_devices :
          \E d, e \in 1..Len(DevicesSeen(sid)) :
              LET bat == DevicesSeen(sid)[d]
                  inv == DevicesSeen(sid)[e]
              IN /\ bat.deviceType = Code1
                 /\ BatteryPack \in ResolvedNames(y.stations_info[sid], Code1)
                 /\ Asked("battery_links", sid, device_sn(bat))
                 /\ Inverter \in ResolvedNames(y.stations_info[sid], inv.deviceType)
                 /\ Asked("device_wifi", sid, device_sn(inv))
                 /\ ~Asked("battery_links", sid, device_sn(inv))

\* C12: with the instant of the cycle fixed, the report fetch of window "day"
\* and of window "all" is sent the date as YYYY-MM-DD, that of "month" as
\* YYYY-MM and that of "year" as YYYY (2024-03-05, 2024-03, 2024).
Number(txt) ==
    LET value(ch) == (CHOOSE k \in 1..10 : Digits[k] = ch) - 1
        RECURSIVE upto(_)
        upto(n) == IF n = 0 THEN 0 ELSE 10 * upto(n - 1) + value(txt[n])
    IN upto(Len(txt))
IsNumber(txt) == \A k \in 1..Len(txt) : \E n \in 1..10 : Digits[n] = txt[k]

ReadsYear(txt, d) ==
    Len(txt) >= 4 /\ IsNumber(SubSeq(txt, 1, 4)) /\ Number(SubSeq(txt, 1, 4)) = d.year
ReadsMonth(txt, d) ==
    /\ Len(txt) >= 7 /\ txt[5] = "-"
    /\ IsNumber(SubSeq(txt, 6, 7)) /\ Number(SubSeq(txt, 6, 7)) = d.month
ReadsDay(txt, d) ==
    /\ Len(txt) >= 10 /\ txt[8] = "-"
    /\ IsNumber(SubSeq(txt, 9, 10)) /\ Number(SubSeq(txt, 9, 10)) = d.day

C12_DateFormats ==
    \A i \in Entries :
        log[i].op = "report" =>
            LET txt == log[i].date
            IN /\ log[i].arg \in {"day", "all"} =>
                    Len(txt) = 10 /\ ReadsYear(txt, y.today) /\ ReadsMonth(txt, y.today)
                                  /\ ReadsDay(txt, y.today)
               /\ log[i].arg = "month" =>
                    Len(txt) = 7 /\ ReadsYear(txt, y.today) /\ ReadsMonth(txt, y.today)
               /\ log[i].arg = "year" => Len(txt) = 4 /\ ReadsYear(txt, y.today)
               /\ y.today = Date(2024, 3, 5) =>
                    txt = CASE log[i].arg = "month" -> <<"2","0","2","4","-","0","3">>
                            [] log[i].arg = "year" -> <<"2","0","2","4">>
                            [] OTHER -> <<"2","0","2","4","-","0","3","-","0","5">>

C12_Witness ==
    /\ y.pc = "returned"
    /\ y.today = Date(2024, 3, 5)
    /\ \E i, j, k, l \in Entries :
          /\ log[i].op = "report" /\ log[i].arg = "all" /\ Len(log[i].date) = 10
          /\ log[j].op = "report" /\ log[j].arg = "day" /\ log[j].date = log[i].date
          /\ log[k].op = "report" /\ log[k].arg = "month"
          /\ log[k].date = <<"2","0","2","4","-","0","3">>
          /\ log[l].op = "report" /\ log[l].arg = "year"
          /\ log[l].date = <<"2","0","2","4">>

\* C13: the sleep after attempt i of a fetch or of a login lasts at least
\* 2^(i-1) s and less than 2^(i-1) + 0.5 s; a sleep is always followed by a
\* further attempt, and there is none after the last attempt (the third of a
\* fetch, the second of a login).
InBackoffRange(wait, i) == 1000 * (2 ^ (i - 1)) <= wait /\ wait < 1000 * (2 ^ (i - 1)) + 500

Validates(step, entries) ==
    CASE step.kind = "user" ->
            \A i \in 1..Len(entries) : entries[i].username # step.input.username
      [] step.kind = "reauth" -> TRUE
      [] step.kind = "options" ->
            \/ entries[step.target].username # step.input.username
            \/ entries[step.target].password # step.input.password
      [] OTHER -> FALSE

C14_ValidationFrame ==
    /\ h.flow.pc = "validating" =>
          /\ c.op = "login" /\ c.logins = 1 /\ c.posts \in {1, 2}
          /\ c.pc # "done" => c.token = None
          /\ Validates(h.flow, h.before)
          /\ h.entries = h.before /\ h.reloads = h.reloadsBefore
    /\ h.flow.pc = "idle" =>
          /\ h.last.logins = IF Validates(h.last, h.before) THEN 1 ELSE 0
          /\ h.last.loginFailed =>
                /\ h.last.result = "form"
                /\ h.entries = h.before /\ h.reloads = h.reloadsBefore

C14_Witness ==
    /\ h.flow.pc = "idle" /\ h.last.kind = "options" /\ h.last.loginFailed
    /\ h.last.logins = 1 /\ h.last.input.refresh_period >= 3
    /\ Len(h.entries) = 1 /\ h.entries[1].username # h.last.input.username

\* C15 as stated: every accepted configuration has refresh_period >= 3, and
\* so has the polling interval of every entry.
C15_Claim ==
    \A i \in 1..Len(h.entries) :
        /\ h.entries[i].refresh_period >= 3
        /\ IsSome(h.entries[i].options) => Val(h.entries[i].options).refresh_period >= 3
        /\ update_interval(h.entries[i]) >= 3

\* C16 as stated: the setup of the sensor platform calls no fetch and no login
\* of the client; it reads the cached snapshot only.
C16_Claim == p.fetches = 0 /\ (p.pc \notin {"off", "added", "raised"} => c.pc = "idle")

\* C17: a cycle cancelled while it is suspended in a GET, in the POST of an
\* inline login or in a backoff sleep handles the cancellation as no failure
\* of a sub-resource: the cancelled fetch is the last request of the cycle,
\* and the cycle ends without a snapshot, so that what it had built is never
\* read.
C17_CancelPropagates ==
    /\ (y.pc \in FetchOps /\ c.pc = "done" /\ c.result.st = "cancelled") =>
          \A d \in Dates : Advance(y, c.result, d).pc = "cancelled"
    /\ \A i \in Entries :
          log[i].res.st = "cancelled" =>
              /\ i = Len(log)
              /\ y.pc = "cancelled"
              /\ c.pc = "idle"
    /\ y.pc = "cancelled" => Len(log) >= 1 /\ log[Len(log)].res.st = "cancelled"

C17_Witness ==
    /\ y.pc = "cancelled"
    /\ log[Len(log)].op = "device_wifi"
    /\ log[Len(log)].res.at = "f_sleep"
    /\ DOMAIN y.stations_component # {}

\* C18: a cycle has at most one HTTP request (GET or login POST) in flight at
\* any moment, and it issues a request, and calls its next fetch, only when
\* the request before has completed, failed or timed out.
C18_Sequential ==
    /\ c.inflight \in {0, 1}
    /\ c.inflight = 1 <=> c.pc \in {"l_post", "f_get"}
    /\ y.pc \in FetchOps =>
          /\ c.op = y.pc /\ c.pc # "idle"
          /\ \A i \in Entries : log[i].res.st = "none" <=> i = Len(log)
    /\ y.pc \notin FetchOps => c.inflight = 0 /\ c.pc = "idle"

C18_Witness ==
    /\ y.pc = "report" /\ Len(log) > 4
    /\ c.pc = "l_post" /\ c.lret = "401" /\ c.gets = 2 /\ c.inflight = 1

\* C19: the seven fetch operations are one skeleton: from the same state of
\* the client and on the same outcome of the exchange or sleep they are in,
\* any two of them take the same step (the same login, GET or sleep, of the
\* same length, the same result, the same token and expiry) and the
\* step takes the same time; so they do on every sequence of outcomes.
As(cl, op) == [cl EXCEPT !.op = op]
Exchanges == {GetOk(PlainBody)} \cup {GetFault(k) : k \in GetFaults}

In401Login == c.op \in FetchOps /\ c.lret = "401" /\ c.pc \in {"l_post", "l_sleep"}
Ends401Login == In401Login /\ c'.pc \notin {"l_post", "l_sleep"}
Slept401Login == c.op \in FetchOps /\ c.lret = "401" /\ c.pc = "f_sleep" /\ c.stored

\* The attempt whose GET was answered 401 is a failed one of the three:
\* nothing is returned from it, and when its login is over the fetch sleeps
\* before the next attempt or, after the third, raises.
Counts401AsFailure ==
    /\ [](In401Login =>
            c.gets >= 1 /\ c.gets <= c.attempt /\ c.attempt <= 3 /\ c.result = NoResult)
    /\ [][Ends401Login =>
            /\ c'.gets = c.gets /\ c'.attempt = c.attempt
            /\ IF c.attempt < 3 THEN c'.pc = "f_sleep"
               ELSE c'.pc = "done" /\ c'.result.st = "raised"
                    /\ c'.result.body = EmptyObj]_vars

\* C20 as stated: a GET answered 401 makes the fetch log in afresh and counts
\* as a failed attempt, and when the login succeeded and an attempt is left,
\* the next GET carries the token that login stored.
C20_Claim ==
    /\ Counts401AsFailure
    /\ [][Slept401Login => (c'.pc = "f_get" /\ c'.token = c.token)]_vars

\* C20 amended: a GET answered 401 makes the fetch log in afresh and counts
\* as a failed attempt of the three, its body is not returned, and when the
\* login succeeded and an attempt is left, the next attempt sends its GET with
\* the token that login stored if that token is valid (now < expiry - 10 s)
\* when the attempt begins; if it is not, the attempt logs in again before
\* any GET.
C20_Unauthorized ==
    /\ Counts401AsFailure
    /\ [][Slept401Login =>
            IF token_is_valid(c.token, c.expiry, now')
            THEN c'.pc = "f_get" /\ c'.token = c.token /\ c'.gets = c.gets + 1
            ELSE c'.pc = "l_post" /\ c'.lret = "pre" /\ c'.gets = c.gets]_vars

C20_Witness ==
    /\ c.op \in FetchOps /\ c.pc = "f_get" /\ c.lret = "401" /\ c.attempt = 3
    /\ c.gets = 3 /\ c.logins = 1 /\ c.validAtCall
    /\ c.token = Some(OtherToken)

\* C21: a GET answered with a 5xx status, with any other status that is
\* neither 200 nor 401 (404, say), or with 200 and a body that is no JSON, is
\* a failed attempt like any other: the step starts no login and sends
\* nothing, before the third attempt the call sleeps and then begins the next
\* attempt (its GET goes out at once when the stored token is still valid),
\* and the call raises at the third attempt, never earlier.
Refusals == {"s5xx", "sOther", "badjson"}
Refused(cl) == cl.op \in FetchOps /\ cl.answer \in Refusals

C21_RefusalsRetried ==
    /\ [](Refused(c) =>
            /\ c.inflight = 0
            /\ IF c.attempt < 3 THEN c.pc = "f_sleep" /\ c.result = NoResult
               ELSE c.pc = "done" /\ c.result.st = "raised" /\ c.result.body = EmptyObj)
    /\ []((c.op \in FetchOps /\ c.pc = "done" /\ c.result.st = "raised") => c.attempt = 3)
    /\ [][(c.pc = "f_get" /\ Refused(c')) =>
            /\ c'.logins = c.logins /\ c'.posts = c.posts /\ c'.gets = c.gets
            /\ c'.attempt = c.attempt
            /\ c'.token = c.token /\ c'.expiry = c.expiry]_vars
    /\ [][(c.pc = "f_sleep" /\ Refused(c)) =>
            /\ c'.attempt = c.attempt + 1
            /\ IF token_is_valid(c.token, c.expiry, now')
               THEN c'.pc = "f_get" /\ c'.gets = c.gets + 1 /\ c'.logins = c.logins
               ELSE c'.pc = "l_post" /\ c'.lret = "pre" /\ c'.gets = c.gets]_vars

C21_Witness ==
    /\ c.op \in FetchOps /\ c.pc = "done" /\ c.result.st = "raised"
    /\ c.answer = "sOther" /\ c.gets = 3 /\ c.logins = 0 /\ c.sleeps = 2

\* C22: a login returns normally only from an attempt whose response body is
\* JSON with a non-empty data.token, which it stores; an attempt answered
\* with a body that is no JSON or holds no token stores nothing and is a
\* failed attempt, followed by a second POST after the backoff sleep when it
\* was the first and by the login raising when it was the second: a login
\* answered so at both attempts raises after 2 POSTs and leaves the client's
\* token as it was.
BadBodies == {"nonjson", "notoken"}
LoginRaised(cl) == cl.op = "login" /\ cl.pc = "done" /\ cl.result.st = "raised"
LoginReturned(cl) == cl.op = "login" /\ cl.pc = "done" /\ cl.result.st = "ok"

C22_LoginNeedsToken ==
    /\ [](LoginReturned(c) =>
            c.lanswer = "token" /\ c.stored /\ IsSome(c.token) /\ IsSome(c.expiry))
    /\ [](c.stored => c.lanswer = "token")
    /\ [](LoginRaised(c) =>
            /\ c.posts = 2 /\ c.lattempt = 2 /\ c.lanswer # "token"
            /\ c.token = c.before.token /\ c.expiry = c.before.expiry)
    /\ [][(c.pc = "l_post" /\ c'.lanswer \in BadBodies) =>
            /\ c'.token = c.token /\ c'.expiry = c.expiry /\ ~c'.stored
            /\ c'.posts = c.posts /\ c'.lattempt = c.lattempt
            /\ IF c.lattempt < 2 THEN c'.pc = "l_sleep"
               ELSE IF c.op = "login" THEN LoginRaised(c')
               ELSE c'.pc \in {"f_sleep", "done"} /\ c'.gets = c.gets
                    /\ c'.result.st \in {"none", "raised"}]_vars
    /\ [][c.pc = "l_sleep" =>
            /\ c'.pc = "l_post" /\ c'.lattempt = c.lattempt + 1 /\ c'.posts = c.posts + 1
            /\ c'.token = c.token /\ c'.expiry = c.expiry]_vars

C22_Witness ==
    /\ LoginRaised(c) /\ c.lanswer = "nonjson" /\ c.posts = 2
    /\ IsSome(c.token) /\ c.token = c.before.token

\* C30: while a login is under way and after it has failed (its second
\* attempt timed out, met an error, got a body that is no JSON or one without
\* token), the client holds the token and the expiry it held when the login
\* was called; token and expiry change only in the step of a login attempt
\* that got a token, which writes both, so that the client holds both or
\* neither.
LoginFaults == {"timeout", "error", "nonjson", "notoken"}
Holds(cl, tokexp) == cl.token = tokexp.token /\ cl.expiry = tokexp.expiry

C30_FailedLoginFrame ==
    /\ []((c.pc \in {"l_post", "l_sleep"} \/ c.lanswer \in LoginFaults) => Holds(c, c.before))
    /\ [](IsSome(c.token) <=> IsSome(c.expiry))
    /\ [][~Holds(c', [token |-> c.token, expiry |-> c.expiry]) =>
            /\ c.pc = "l_post" /\ c'.stored /\ c'.lanswer = "token"
            /\ IsSome(c'.token) /\ Val(c'.token) \in Tokens
            /\ c'.expiry = Some(expiry_after_login(Val(c'.token), now'))]_vars

C30_Witness ==
    /\ LoginRaised(c) /\ c.lanswer = "timeout" /\ c.posts = 2
    /\ IsSome(c.token) /\ Holds(c, c.before) /\ now > NowStart + Ms(2 * LOGIN_TIMEOUT)

\* C23 as stated: a station whose device-page fetch failed has {} as its
\* device entry and no wifi or battery-links fetch; a station whose
\* device-page fetch succeeded has the fetched page in its device entry.
NoDeviceFetch(sid) ==
    \A i \in Entries : log[i].sid = sid => log[i].op \notin {"device_wifi", "battery_links"}
KeepsPage(e) == DeviceEntry(e.sid).shape = "page" /\ DeviceEntry(e.sid).page = e.res.body

ReportFetches(sid, w) ==
    {i \in Entries : log[i].op = "report" /\ log[i].sid = sid /\ log[i].arg = w}

C24_FourWindows ==
    y.pc = "returned" =>
        \A i \in Entries :
            (log[i].op = "station_info" /\ Fetched(log[i])) =>
                LET sid == log[i].sid
                IN /\ sid \in DOMAIN y.stations_reports
                   /\ DOMAIN y.stations_reports[sid] = {"all", "day", "month", "year"}
                   /\ \A w \in DOMAIN y.stations_reports[sid] :
                         /\ Cardinality(ReportFetches(sid, w)) = 1
                         /\ \A k \in ReportFetches(sid, w) :
                               y.stations_reports[sid][w] =
                                   IF Failed(log[k]) THEN EmptyObj ELSE log[k].res.body

C24_Witness ==
    /\ y.pc = "returned"
    /\ \E k \in ReportFetches("s1", "day") : Failed(log[k])
    /\ y.stations_reports["s1"]["day"] = EmptyObj
    /\ \A w \in {"all", "month", "year"} : y.stations_reports["s1"][w] = PlainBody

\* C25: when the wifi fetch of a device failed, the returned snapshot holds
\* {} under that device's serial number and, under the serial number of every
\* other device of the page, what that device's own wifi fetch returned; the
\* device is classified as if the fetch had succeeded, its battery-links
\* fetch is called when it is a battery, and the wifi fetch (and, for a
\* battery, the battery-links fetch) of every device of the page is called.
FetchOf(op, sid, arg) ==
    CHOOSE i \in Entries : log[i].op = op /\ log[i].sid = sid /\ log[i].arg = arg

WifiFailureLocal(e) ==
    LET entry == DeviceEntry(e.sid)
        recs == Records(entry.page)
        mapping == Val(device_type_mapping(y.stations_info[e.sid]))
    IN /\ entry.shape = "page"
       /\ e.arg \in DOMAIN entry.wifi_data /\ entry.wifi_data[e.arg] = EmptyObj
       /\ \A d \in 1..Len(recs) :
             LET sn == device_sn(recs[d])
             IN sn # "" =>
                  /\ Asked("device_wifi", e.sid, sn)
                  /\ sn \in DOMAIN entry.wifi_data
                  /\ entry.wifi_data[sn] = Got(log[FetchOf("device_wifi", e.sid, sn)].res)
                  /\ is_battery(mapping, recs[d].deviceType)
                       <=> Asked("battery_links", e.sid, sn)

C25_WifiFailure ==
    y.pc = "returned" =>
        \A i \in Entries :
            (log[i].op = "device_wifi" /\ Failed(log[i])) => WifiFailureLocal(log[i])

C25_Witness ==
    /\ y.pc = "returned"
    /\ \E i \in Entries :
          log[i].op = "device_wifi" /\ log[i].sid = "s1" /\ log[i].arg = "SN1" /\ Failed(log[i])
    /\ Asked("battery_links", "s1", "SN1")
    /\ DeviceEntry("s1").wifi_data["SN1"] = EmptyObj
    /\ DeviceEntry("s1").wifi_data["SN2"] = PlainBody
    /\ DeviceEntry("s1").battery_links["d1"] = PlainBody

\* C26 as stated: in the returned snapshot, every device of a station's page
\* that has a serial number and is classified as a battery has an entry in
\* the station's battery-links map, which holds what its battery-links fetch
\* returned, or {} when that fetch failed.
Batteries(sid) ==
    LET recs == Records(DeviceEntry(sid).page)
        mapping == Val(device_type_mapping(y.stations_info[sid]))
    IN {recs[d] : d \in {n \in 1..Len(recs) :
                            /\ device_sn(recs[n]) # ""
                            /\ is_battery(mapping, recs[n].deviceType)}}

LinksStored(sid, dev) ==
    /\ Asked("battery_links", sid, device_sn(dev))
    /\ dev.deviceId \in DOMAIN DeviceEntry(sid).battery_links
    /\ DeviceEntry(sid).battery_links[dev.deviceId]
         = Got(log[FetchOf("battery_links", sid, device_sn(dev))].res)

PagesKept == {sid \in DOMAIN y.stations_devices : y.stations_devices[sid].shape = "page"}

C26_Claim ==
    y.pc = "returned" =>
        \A sid \in PagesKept : \A dev \in Batteries(sid) : LinksStored(sid, dev)

\* C26 amended: the same for every such device that has a device identifier;
\* for one without identifier the battery links are fetched and nothing is
\* stored, so that the keys of the map are the identifiers of the batteries
\* that have one.
C26_BatteryLinks ==
    y.pc = "returned" =>
        \A sid \in PagesKept :
            /\ \A dev \in Batteries(sid) :
                  IF dev.deviceId # "" THEN LinksStored(sid, dev)
                  ELSE Asked("battery_links", sid, device_sn(dev))
            /\ DOMAIN DeviceEntry(sid).battery_links
                 = {dev.deviceId : dev \in {b \in Batteries(sid) : b.deviceId # ""}}

C26_Witness ==
    /\ y.pc = "returned"
    /\ "s1" \in PagesKept
    /\ \E dev \in Batteries("s1") : dev.deviceId = "" /\ device_sn(dev) = "SN1"
    /\ \E i \in Entries :
          log[i].op = "battery_links" /\ log[i].sid = "s1" /\ log[i].arg = "SN1"
          /\ log[i].res.body = PlainBody
    /\ DOMAIN DeviceEntry("s1").battery_links = {}

\* C27 as stated: after a login that returned a token which has not exactly
\* three dot-separated segments, the stored expiry is the login time + 600 s.
C27_Claim ==
    (c.stored /\ Val(c.token).segs # 3) => Val(c.expiry) = now + Ms(FALLBACK_LIFETIME)

\* C28: the fetches of a cycle are called in dependency order.  The first is
\* the station list and there is no other; every later one is for a station
\* of the list that call returned, after that station's info was fetched,
\* and a wifi or battery-links fetch is for a device of the page the
\* station's device-page fetch returned; a fetch is called only when the one
\* before it has ended.  The stations come in list order, and for one station
\* the order is: info, the reports "all", "day", "month", "year", component,
\* device page, then device by device in page order the wifi and, after it,
\* the battery links.
StationPos(sid) ==
    CHOOSE k \in 1..Len(Records(log[1].res.body)) :
        Records(log[1].res.body)[k].stationsId = sid

PageOf(sid) == log[FetchOf("device_page", sid, "")].res.body

DevicePos(e) ==
    CHOOSE d \in 1..Len(Records(PageOf(e.sid))) :
        device_sn(Records(PageOf(e.sid))[d]) = e.arg

Rank(e) ==
    CASE e.op = "station_info" -> 1
      [] e.op = "report" /\ e.arg = "all" -> 2
      [] e.op = "report" /\ e.arg = "day" -> 3
      [] e.op = "report" /\ e.arg = "month" -> 4
      [] e.op = "report" /\ e.arg = "year" -> 5
      [] e.op = "component" -> 6
      [] e.op = "device_page" -> 7
      [] e.op = "device_wifi" -> 8
      [] e.op = "battery_links" -> 9

\* Where a fetch stands in the order: station, then device, then operation.
Place(e) ==
    <<StationPos(e.sid),
      IF e.op \in {"device_wifi", "battery_links"} THEN DevicePos(e) ELSE 0,
      Rank(e)>>

Before(a, b) ==
    \/ a[1] < b[1]
    \/ a[1] = b[1] /\ a[2] < b[2]
    \/ a[1] = b[1] /\ a[2] = b[2] /\ a[3] < b[3]

Discovered(i) ==
    /\ Fetched(log[1])
    /\ \E k \in 1..Len(Records(log[1].res.body)) :
          Records(log[1].res.body)[k].stationsId = log[i].sid
    /\ log[i].sid # ""
    /\ log[i].op # "station_info" =>
          \E j \in 2..(i - 1) :
              log[j].op = "station_info" /\ log[j].sid = log[i].sid /\ Fetched(log[j])
    /\ log[i].op \in {"device_wifi", "battery_links"} =>
          /\ \E j \in 2..(i - 1) :
                log[j].op = "device_page" /\ log[j].sid = log[i].sid /\ Fetched(log[j])
          /\ \E d \in 1..Len(Records(PageOf(log[i].sid))) :
                device_sn(Records(PageOf(log[i].sid))[d]) = log[i].arg
          /\ log[i].arg # ""
    /\ log[i].op = "battery_links" =>
          log[i - 1].op = "device_wifi" /\ log[i - 1].arg = log[i].arg

C28_DependencyOrder ==
    /\ Len(log) >= 1 => log[1].op = "stations"
    /\ \A i \in Entries :
          /\ i < Len(log) => log[i].res.st \in {"ok", "raised"}
          /\ i > 1 => log[i].op \in FetchOps \ {"stations"} /\ Discovered(i)
          /\ i > 2 => Before(Place(log[i - 1]), Place(log[i]))

C28_Witness ==
    /\ y.pc = "returned" /\ Len(log) = 21
    /\ \E i \in 1..8 :
          /\ log[i].op = "device_page" /\ log[i].sid = "s1"
          /\ log[i + 1].op = "device_wifi" /\ log[i + 1].arg = "SN2"
          /\ log[i + 2].op = "device_wifi" /\ log[i + 2].arg = "SN1"
          /\ log[i + 3].op = "battery_links" /\ log[i + 3].arg = "SN1"
          /\ log[i + 4].op = "station_info" /\ log[i + 4].sid = "s2"
    /\ log[21].op = "device_wifi" /\ log[21].sid = "s2" /\ log[21].arg = "SN2"

\* C29 as stated: every operation in progress on the client of a config entry
\* was called by the polling cycle, which awaits one at a time: token and
\* expiry are written, and an HTTP exchange or a backoff sleep of the client
\* is under way, only while the cycle waits for a fetch, and at most one
\* exchange is under way.
InProgress(cl) == cl.pc \in {"l_post", "l_sleep", "f_get", "f_sleep"}

C29_Claim ==
    /\ c.inflight <= 1
    /\ InProgress(c) => y.pc \in FetchOps
    /\ c.stored => y.pc \in FetchOps

\* C31: while a GET of a fetch is under way the client holds a token, the
\* one the GET was sent with; an inline login that fails at the head of an
\* attempt ends the attempt without a GET, and a fetch that has sent no GET
\* when it ends has raised after 3 attempts with a failed login each.
C31_GetCarriesToken ==
    /\ [](c.pc = "f_get" => IsSome(c.token) /\ Val(c.token) \in Tokens /\ c.gets >= 1)
    /\ []((c.op \in FetchOps /\ c.pc = "done" /\ c.gets = 0) =>
            /\ c.result.st = "raised" /\ c.attempt = 3 /\ c.logins = 3
            /\ c.sleeps = 2 /\ ~c.validAtCall /\ Holds(c, c.before))
    /\ [][(c.pc = "l_post" /\ c.lret = "pre" /\ c.lattempt = 2
            /\ c'.lanswer \in LoginFaults) =>
            /\ c'.gets = c.gets /\ c'.attempt = c.attempt
            /\ IF c.attempt < 3 THEN c'.pc = "f_sleep"
               ELSE c'.pc = "done" /\ c'.result.st = "raised"]_vars

C31_Witness ==
    /\ c.op \in FetchOps /\ c.pc = "done" /\ c.result.st = "raised"
    /\ c.gets = 0 /\ c.logins = 3 /\ c.posts = 2 /\ c.token = None

\* C32 as stated: at the moment a fetch sends a GET, the token it sends is
\* valid: now < expiry - 10 s.
InMargin(cl, t) == IsSome(cl.token) /\ IsSome(cl.expiry) /\ t < Val(cl.expiry) - 10000

C32_Claim == c.pc = "f_get" => InMargin(c, now)

\* C32 amended: at the moment a fetch sends a GET, either the token was
\* found valid (now < expiry - 10 s) at the head of the attempt, at that same
\* moment, or it has just been stored by the login made at the head of the
\* attempt and is sent unchecked with the expiry that login gave it: it is
\* valid then exactly if its expiry claim, or the login time + 600 s in the
\* absence of a usable claim, lies more than 10 s ahead.
C32_ValidOrFresh ==
    c.pc = "f_get" =>
        IF c.stored
        THEN /\ c.lret = "pre" /\ c.lanswer = "token"
             /\ c.expiry = Some(expiry_after_login(Val(c.token), now))
             /\ InMargin(c, now) <=>
                   (NoUsableClaim(Val(c.token)) \/ Val(c.token).exp = 0
                    \/ Val(c.token).exp > now + 10000)
        ELSE InMargin(c, now)

C32_Witness ==
    /\ c.pc = "f_get" /\ c.stored /\ ~InMargin(c, now)
    /\ Val(c.token).exp = ExpPast /\ c.gets = 1 /\ c.attempt = 1

\* C33: in the returned snapshot stations_info, stations_reports,
\* stations_component and stations_devices have the same keys: the non-empty
\* identifiers of the stations of the list whose station-info fetch
\* succeeded.
InfoFetched ==
    {Records(y.stations)[k].stationsId :
        k \in {n \in 1..Len(Records(y.stations)) :
                  /\ Records(y.stations)[n].stationsId # ""
                  /\ \E i \in Entries :
                        /\ log[i].op = "station_info" /\ Fetched(log[i])
                        /\ log[i].sid = Records(y.stations)[n].stationsId}}

C33_SameKeys ==
    y.pc = "returned" =>
        /\ DOMAIN y.stations_info = InfoFetched
        /\ DOMAIN y.stations_reports = InfoFetched
        /\ DOMAIN y.stations_component = InfoFetched
        /\ DOMAIN y.stations_devices = InfoFetched

C33_Witness ==
    /\ y.pc = "returned"
    /\ Records(y.stations) = <<Station("s1"), Station("s2")>>
    /\ \E i \in Entries : log[i].op = "station_info" /\ log[i].sid = "s1" /\ Failed(log[i])
    /\ DOMAIN y.stations_devices = {"s2"} /\ DOMAIN y.stations_info = {"s2"}

\* C34: a fetch call whose HTTP exchanges all return or time out ends,
\* returning data or raising, and up to then it has sent at most 3 GETs,
\* called at most 6 logins of at most 2 POSTs each, and slept at most 2
\* backoff sleeps of its own.  Hence a polling cycle ends, with a snapshot
\* or with an exception: every fetch it awaits ends, each time it goes on it
\* either ends or calls one more fetch, and it calls no more fetches than
\* the station list and the device pages have entries for (1 for the list,
\* 7 for each station and 2 for each device).
RequestsOf(stations, devices) ==
    1 + Len(Records(stations)) * (7 + 2 * Len(Records(devices)))

C34_FetchTerminates ==
    /\ [](c.op \in FetchOps =>
            /\ c.gets <= 3 /\ c.logins <= 6 /\ c.posts <= 2 /\ c.sleeps <= 2
            /\ c.attempt <= 3)
    /\ [](c.op \in FetchOps /\ c.pc = "done" => c.result.st \in {"ok", "raised"})
    /\ ((c.op \in FetchOps /\ InProgress(c)) ~> (c.op \in FetchOps /\ c.pc = "done"))
    /\ (y.pc \in FetchOps ~> (c.pc = "done" \/ y.pc \in {"returned", "raised"}))
    /\ [][(y.pc \in FetchOps /\ c.pc = "done") =>
            \/ y'.pc \in {"returned", "raised"} /\ Len(log') = Len(log)
            \/ y'.pc \in FetchOps /\ Len(log') = Len(log) + 1 /\ InProgress(c')]_vars
    /\ [](Len(log) <= RequestsOf(NominalStations, NominalDevices))

C34_Witness ==
    /\ y.pc = "off" /\ c.op \in FetchOps /\ c.pc = "done" /\ c.result.st = "raised"
    /\ c.gets = 3 /\ c.logins = 6 /\ c.posts = 2 /\ c.sleeps = 2

\* C35: an options submission ends with an error exactly when its
\* refresh_period is below 3 or its changed credentials failed the login;
\* then it shows the form again and leaves every config entry and the number
\* of reloads as it found them.  Without error it writes the submitted
\* credentials and options into its entry, leaves the other entries alone
\* and reloads once.
OptionsEnded == h.flow.pc = "idle" /\ h.last.kind = "options"

C35_OptionsErrorFrame ==
    OptionsEnded =>
        LET e == h.last.target
            input == h.last.input
        IN /\ "refresh_period_too_low" \in h.last.errors <=> input.refresh_period < 3
           /\ "invalid_auth" \in h.last.errors <=> h.last.loginFailed
           /\ h.last.loginFailed =>
                 (input.username # h.before[e].username
                    \/ input.password # h.before[e].password)
           /\ IF h.last.errors # {}
              THEN /\ h.last.result = "form"
                   /\ h.entries = h.before
                   /\ h.reloads = h.reloadsBefore
              ELSE /\ h.last.result = "create_entry"
                   /\ h.reloads = h.reloadsBefore + 1
                   /\ Len(h.entries) = Len(h.before)
                   /\ h.entries[e] = [h.before[e] EXCEPT !.username = input.username,
                                                         !.password = input.password,
                                                         !.options = Some(input)]
                   /\ \A i \in 1..Len(h.entries) : i # e => h.entries[i] = h.before[i]

C35_Witness ==
    /\ OptionsEnded
    /\ h.last.errors = {"refresh_period_too_low", "invalid_auth"}
    /\ h.entries = h.before /\ Len(h.entries) = 1 /\ h.reloads = 0

\* C36 as stated: after any sequence of setup, re-authentication and options
\* submissions, no two config entries have the same username.
C36_Claim ==
    \A i, j \in 1..Len(h.entries) :
        i # j => h.entries[i].username # h.entries[j].username

\* C37 as stated: a re-authentication that succeeded has written the submitted
\* credentials into the entry it was requested for, and has left every other
\* entry as it found it.
ReauthSucceeded == h.flow.pc = "idle" /\ h.last.kind = "reauth" /\ h.last.result = "abort"

C37_Claim ==
    ReauthSucceeded =>
        /\ Len(h.entries) = Len(h.before)
        /\ \A i \in 1..Len(h.entries) :
              IF i = h.last.target
              THEN h.entries[i] = [h.before[i] EXCEPT !.username = h.last.input.username,
                                                     !.password = h.last.input.password]
              ELSE h.entries[i] = h.before[i]

\* C38 as stated: when the login of a validation has raised, the step of the
\* flow reports "cannot_connect" if every POST of that login timed out, and
\* "invalid_auth" if its last POST was answered without a token; the two
\* codes are never reported together.
AllTimedOut(cl) == LoginRaised(cl) /\ cl.ltimeouts = cl.posts
Rejected(cl) == LoginRaised(cl) /\ cl.lanswer = "notoken"

C38_Claim ==
    [][(h.flow.pc = "validating" /\ LoginRaised(c) /\ h'.flow.pc = "idle") =>
          /\ h'.last.result = "form"
          /\ AllTimedOut(c) =>
                "cannot_connect" \in h'.last.errors /\ "invalid_auth" \notin h'.last.errors
          /\ Rejected(c) =>
                "invalid_auth" \in h'.last.errors /\ "cannot_connect" \notin h'.last.errors]_vars
====
